---- MODULE Spec2Model ----
(***************************************************************************)
(* LeadCode: the multi-ecosystem technology detection engine.              *)
(*                                                                         *)
(* Ecosystem detection (MANIFEST_CHECKS / detectEcosystem), the adapter    *)
(* registry (getEcosystemAdapter), the manifest parsers' failure           *)
(* behaviour, and the per-ecosystem framework detectors and stack          *)
(* classifiers (detectFramework / detectStack).                            *)
(*                                                                         *)
(* Strings are TLA+ strings; dependency maps are sequences of              *)
(* [k |-> key, v |-> version] records with distinct keys, in insertion     *)
(* order (the order Object.keys / Object.entries enumerates).              *)
(***************************************************************************)
EXTENDS Integers, Sequences, FiniteSets, TLC

\* ---------------------------------------------------------------------------
\* String primitives (String.prototype.startsWith / endsWith / includes)
\* ---------------------------------------------------------------------------

StartsWith(s, p) == Len(s) >= Len(p) /\ SubSeq(s, 1, Len(p)) = p

EndsWith(s, p) == Len(s) >= Len(p) /\ SubSeq(s, Len(s) - Len(p) + 1, Len(s)) = p

Includes(s, p) == \E i \in 1..(Len(s) - Len(p) + 1) : SubSeq(s, i, i + Len(p) - 1) = p

CharAt(s, i) == IF i >= 1 /\ i <= Len(s) THEN SubSeq(s, i, i) ELSE ""

\* ---------------------------------------------------------------------------
\* The version regular expressions
\* ---------------------------------------------------------------------------

Digits == {"0", "1", "2", "3", "4", "5", "6", "7", "8", "9"}

RangeOperators == {"^", "~", ">", "=", "<"}

Whitespace == {" ", "\t", "\n", "\r"}

\* index of the last character of the maximal digit run starting at i
\* (i - 1 when s[i] is not a digit): the greedy \d+
RECURSIVE DigitRunEnd(_, _)
DigitRunEnd(s, i) ==
  IF CharAt(s, i) \in Digits THEN DigitRunEnd(s, i + 1) ELSE i - 1

\* the third number of a match whose first two end at b: `orElse` is the end
\* of the match when no third number follows
ThirdNumberEnd(s, b, c, orElse) == IF c < b + 2 THEN orElse ELSE c

\* the rest of \d+\.\d+\.\d+ after a first number ending at a and a second
\* digit run ending at b
ThreeAfterSecond(s, a, b) ==
  IF b < a + 2 \/ CharAt(s, b + 1) # "." THEN 0
  ELSE ThirdNumberEnd(s, b, DigitRunEnd(s, b + 2), 0)

\* the rest of \d+\.\d+\.\d+ after a first digit run from i ending at a
ThreeAfterFirst(s, i, a) ==
  IF a < i \/ CharAt(s, a + 1) # "." THEN 0
  ELSE ThreeAfterSecond(s, a, DigitRunEnd(s, a + 2))

\* end of a match of \d+\.\d+\.\d+ anchored at i, or 0 when there is none
MatchThreeAt(s, i) == ThreeAfterFirst(s, i, DigitRunEnd(s, i))

\* the rest of \d+\.\d+(?:\.\d+)? after a first number ending at a and a
\* second digit run ending at b
TwoOrThreeAfterSecond(s, a, b) ==
  IF b < a + 2 THEN 0
  ELSE IF CharAt(s, b + 1) # "." THEN b
  ELSE ThirdNumberEnd(s, b, DigitRunEnd(s, b + 2), b)

\* the rest of \d+\.\d+(?:\.\d+)? after a first digit run from i ending at a
TwoOrThreeAfterFirst(s, i, a) ==
  IF a < i \/ CharAt(s, a + 1) # "." THEN 0
  ELSE TwoOrThreeAfterSecond(s, a, DigitRunEnd(s, a + 2))

\* end of a match of \d+\.\d+(?:\.\d+)? anchored at i, or 0 when there is none
MatchTwoOrThreeAt(s, i) == TwoOrThreeAfterFirst(s, i, DigitRunEnd(s, i))

\* the match that ends at `end` when the pattern matches at i
MatchedText(v, i, end, otherwise) == IF end > 0 THEN SubSeq(v, i, end) ELSE otherwise

\* v.match(/\d+\.\d+\.\d+/): the leftmost match, "" when match() is null
RECURSIVE Semver3From(_, _)
Semver3From(v, i) ==
  IF i > Len(v) THEN "" ELSE MatchedText(v, i, MatchThreeAt(v, i), Semver3From(v, i + 1))

MatchSemver3(v) == Semver3From(v, 1)

\* v.match(/\d+\.\d+(?:\.\d+)?/): the leftmost match, "" when match() is null
RECURSIVE Semver2From(_, _)
Semver2From(v, i) ==
  IF i > Len(v) THEN "" ELSE MatchedText(v, i, MatchTwoOrThreeAt(v, i), Semver2From(v, i + 1))

MatchSemver2(v) == Semver2From(v, 1)

\* v.replace(/[\^~>=<]/g, "")
RECURSIVE StripOperators(_)
StripOperators(v) ==
  IF v = "" THEN ""
  ELSE IF CharAt(v, 1) \in RangeOperators THEN StripOperators(SubSeq(v, 2, Len(v)))
  ELSE CharAt(v, 1) \o StripOperators(SubSeq(v, 2, Len(v)))

\* String.prototype.trim
RECURSIVE Trim(_)
Trim(v) ==
  IF v = "" THEN ""
  ELSE IF CharAt(v, 1) \in Whitespace THEN Trim(SubSeq(v, 2, Len(v)))
  ELSE IF CharAt(v, Len(v)) \in Whitespace THEN Trim(SubSeq(v, 1, Len(v) - 1))
  ELSE v

\* ---------------------------------------------------------------------------
\* Dependency maps: Record<string, string> with insertion order
\* ---------------------------------------------------------------------------

\* string | null: <<>> is null/undefined, <<x>> is the string x
Null == <<>>

Some(x) == <<x>>

\* a ?? b
OrElse(a, b) == IF a = Null THEN b ELSE a

\* Object.keys(d)
Keys(d) == [i \in 1..Len(d) |-> d[i].k]

KeySet(d) == {d[i].k : i \in 1..Len(d)}

\* name in d
In(name, d) == \E i \in 1..Len(d) : d[i].k = name

\* d[name]
Get(d, name) ==
  IF In(name, d) THEN Some(d[CHOOSE i \in 1..Len(d) : d[i].k = name].v) ELSE Null

\* { ...deps, ...devDeps }: the keys of deps keep their position and take the
\* devDeps value when devDeps has the key too; the other devDeps keys follow
Merge(deps, devDeps) ==
  [i \in 1..Len(deps) |->
      [k |-> deps[i].k, v |-> OrElse(Get(devDeps, deps[i].k), Some(deps[i].v))[1]]]
  \o SelectSeq(devDeps, LAMBDA e : ~In(e.k, deps))

\* ---- javascript: rule table, noise lists and framework packages (detection.ts) ----

JsRULES ==
  <<
    [packages |-> <<"prisma", "@prisma/client">>, name |-> "prisma", category |-> "orm", versionFrom |-> "", hasCondition |-> FALSE],
    [packages |-> <<"drizzle-orm">>, name |-> "drizzle", category |-> "orm", versionFrom |-> "", hasCondition |-> FALSE],
    [packages |-> <<"typeorm">>, name |-> "typeorm", category |-> "orm", versionFrom |-> "", hasCondition |-> FALSE],
    [packages |-> <<"@mikro-orm/core">>, name |-> "mikro-orm", category |-> "orm", versionFrom |-> "", hasCondition |-> FALSE],
    [packages |-> <<"kysely">>, name |-> "kysely", category |-> "orm", versionFrom |-> "", hasCondition |-> FALSE],
    [packages |-> <<"mongoose">>, name |-> "mongoose", category |-> "orm", versionFrom |-> "", hasCondition |-> FALSE],
    [packages |-> <<"sequelize">>, name |-> "sequelize", category |-> "orm", versionFrom |-> "", hasCondition |-> FALSE],
    [packages |-> <<"objection">>, name |-> "objection", category |-> "orm", versionFrom |-> "", hasCondition |-> FALSE],
    [packages |-> <<"@neondatabase/serverless">>, name |-> "neon", category |-> "database-driver", versionFrom |-> "", hasCondition |-> FALSE],
    [packages |-> <<"libsql", "@libsql/client">>, name |-> "libsql", category |-> "database-driver", versionFrom |-> "", hasCondition |-> FALSE],
    [packages |-> <<"better-sqlite3">>, name |-> "better-sqlite3", category |-> "database-driver", versionFrom |-> "", hasCondition |-> FALSE],
    [packages |-> <<"knex">>, name |-> "knex", category |-> "query-builder", versionFrom |-> "", hasCondition |-> FALSE],
    [packages |-> <<"next-auth", "@auth/core">>, name |-> "next-auth", category |-> "auth", versionFrom |-> "", hasCondition |-> FALSE],
    [packages |-> <<"@clerk/nextjs", "@clerk/clerk-sdk-node">>, name |-> "clerk", category |-> "auth", versionFrom |-> "", hasCondition |-> FALSE],
    [packages |-> <<"lucia", "@lucia-auth/adapter-prisma">>, name |-> "lucia", category |-> "auth", versionFrom |-> "", hasCondition |-> FALSE],
    [packages |-> <<"@supabase/auth-helpers-nextjs", "@supabase/ssr">>, name |-> "supabase-auth", category |-> "auth", versionFrom |-> "", hasCondition |-> FALSE],
    [packages |-> <<"passport">>, name |-> "passport", category |-> "auth", versionFrom |-> "", hasCondition |-> FALSE],
    [packages |-> <<"better-auth">>, name |-> "better-auth", category |-> "auth", versionFrom |-> "", hasCondition |-> FALSE],
    [packages |-> <<"@kinde-oss/kinde-auth-nextjs">>, name |-> "kinde", category |-> "auth", versionFrom |-> "", hasCondition |-> FALSE],
    [packages |-> <<"@auth0/nextjs-auth0", "@auth0/auth0-react">>, name |-> "auth0", category |-> "auth", versionFrom |-> "", hasCondition |-> FALSE],
    [packages |-> <<"firebase-admin">>, name |-> "firebase", category |-> "auth", versionFrom |-> "", hasCondition |-> FALSE],
    [packages |-> <<"@workos-inc/node">>, name |-> "workos", category |-> "auth", versionFrom |-> "", hasCondition |-> FALSE],
    [packages |-> <<"jsonwebtoken", "jose">>, name |-> "jwt", category |-> "auth", versionFrom |-> "", hasCondition |-> FALSE],
    [packages |-> <<"zod">>, name |-> "zod", category |-> "validation", versionFrom |-> "", hasCondition |-> FALSE],
    [packages |-> <<"yup">>, name |-> "yup", category |-> "validation", versionFrom |-> "", hasCondition |-> FALSE],
    [packages |-> <<"joi">>, name |-> "joi", category |-> "validation", versionFrom |-> "", hasCondition |-> FALSE],
    [packages |-> <<"valibot">>, name |-> "valibot", category |-> "validation", versionFrom |-> "", hasCondition |-> FALSE],
    [packages |-> <<"arktype">>, name |-> "arktype", category |-> "validation", versionFrom |-> "", hasCondition |-> FALSE],
    [packages |-> <<"tailwindcss">>, name |-> "tailwind", category |-> "css", versionFrom |-> "", hasCondition |-> FALSE],
    [packages |-> <<"@chakra-ui/react">>, name |-> "chakra", category |-> "css", versionFrom |-> "", hasCondition |-> FALSE],
    [packages |-> <<"@mui/material">>, name |-> "mui", category |-> "css", versionFrom |-> "", hasCondition |-> FALSE],
    [packages |-> <<"styled-components">>, name |-> "styled-components", category |-> "css", versionFrom |-> "", hasCondition |-> FALSE],
    [packages |-> <<"@emotion/react">>, name |-> "emotion", category |-> "css", versionFrom |-> "", hasCondition |-> FALSE],
    [packages |-> <<"@pandacss/dev">>, name |-> "panda", category |-> "css", versionFrom |-> "", hasCondition |-> FALSE],
    [packages |-> <<"@vanilla-extract/css">>, name |-> "vanilla-extract", category |-> "css", versionFrom |-> "", hasCondition |-> FALSE],
    [packages |-> <<"unocss">>, name |-> "unocss", category |-> "css", versionFrom |-> "", hasCondition |-> FALSE],
    [packages |-> <<"@mantine/core">>, name |-> "mantine", category |-> "css", versionFrom |-> "", hasCondition |-> FALSE],
    [packages |-> <<"antd">>, name |-> "ant-design", category |-> "css", versionFrom |-> "", hasCondition |-> FALSE],
    [packages |-> <<"sass">>, name |-> "sass", category |-> "css", versionFrom |-> "", hasCondition |-> FALSE],
    [packages |-> <<"bootstrap">>, name |-> "bootstrap", category |-> "css", versionFrom |-> "", hasCondition |-> FALSE],
    [packages |-> <<"vitest">>, name |-> "vitest", category |-> "testing", versionFrom |-> "", hasCondition |-> FALSE],
    [packages |-> <<"jest">>, name |-> "jest", category |-> "testing", versionFrom |-> "", hasCondition |-> FALSE],
    [packages |-> <<"@playwright/test">>, name |-> "playwright", category |-> "testing", versionFrom |-> "", hasCondition |-> FALSE],
    [packages |-> <<"cypress">>, name |-> "cypress", category |-> "testing", versionFrom |-> "", hasCondition |-> FALSE],
    [packages |-> <<"@testing-library/react">>, name |-> "testing-library", category |-> "testing", versionFrom |-> "", hasCondition |-> FALSE],
    [packages |-> <<"msw">>, name |-> "msw", category |-> "testing", versionFrom |-> "", hasCondition |-> FALSE],
    [packages |-> <<"supertest">>, name |-> "supertest", category |-> "testing", versionFrom |-> "", hasCondition |-> FALSE],
    [packages |-> <<"zustand">>, name |-> "zustand", category |-> "state", versionFrom |-> "", hasCondition |-> FALSE],
    [packages |-> <<"@reduxjs/toolkit", "redux">>, name |-> "redux", category |-> "state", versionFrom |-> "", hasCondition |-> FALSE],
    [packages |-> <<"jotai">>, name |-> "jotai", category |-> "state", versionFrom |-> "", hasCondition |-> FALSE],
    [packages |-> <<"valtio">>, name |-> "valtio", category |-> "state", versionFrom |-> "", hasCondition |-> FALSE],
    [packages |-> <<"@xstate/react", "xstate">>, name |-> "xstate", category |-> "state", versionFrom |-> "", hasCondition |-> FALSE],
    [packages |-> <<"recoil">>, name |-> "recoil", category |-> "state", versionFrom |-> "", hasCondition |-> FALSE],
    [packages |-> <<"mobx", "mobx-react-lite">>, name |-> "mobx", category |-> "state", versionFrom |-> "", hasCondition |-> FALSE],
    [packages |-> <<"@tanstack/react-query">>, name |-> "react-query", category |-> "data-fetching", versionFrom |-> "", hasCondition |-> FALSE],
    [packages |-> <<"swr">>, name |-> "swr", category |-> "data-fetching", versionFrom |-> "", hasCondition |-> FALSE],
    [packages |-> <<"@apollo/client">>, name |-> "apollo", category |-> "data-fetching", versionFrom |-> "", hasCondition |-> FALSE],
    [packages |-> <<"urql">>, name |-> "urql", category |-> "data-fetching", versionFrom |-> "", hasCondition |-> FALSE],
    [packages |-> <<"react-hook-form">>, name |-> "react-hook-form", category |-> "forms", versionFrom |-> "", hasCondition |-> FALSE],
    [packages |-> <<"formik">>, name |-> "formik", category |-> "forms", versionFrom |-> "", hasCondition |-> FALSE],
    [packages |-> <<"@tanstack/react-form">>, name |-> "tanstack-form", category |-> "forms", versionFrom |-> "", hasCondition |-> FALSE],
    [packages |-> <<"@trpc/server", "@trpc/client">>, name |-> "trpc", category |-> "api", versionFrom |-> "", hasCondition |-> FALSE],
    [packages |-> <<"graphql">>, name |-> "graphql", category |-> "api", versionFrom |-> "", hasCondition |-> FALSE],
    [packages |-> <<"vite">>, name |-> "vite", category |-> "bundler", versionFrom |-> "", hasCondition |-> FALSE],
    [packages |-> <<"webpack">>, name |-> "webpack", category |-> "bundler", versionFrom |-> "", hasCondition |-> FALSE],
    [packages |-> <<"esbuild">>, name |-> "esbuild", category |-> "bundler", versionFrom |-> "", hasCondition |-> FALSE],
    [packages |-> <<"tsup">>, name |-> "tsup", category |-> "bundler", versionFrom |-> "", hasCondition |-> FALSE],
    [packages |-> <<"rollup">>, name |-> "rollup", category |-> "bundler", versionFrom |-> "", hasCondition |-> FALSE],
    [packages |-> <<"eslint">>, name |-> "eslint", category |-> "linter", versionFrom |-> "", hasCondition |-> FALSE],
    [packages |-> <<"@biomejs/biome", "biome">>, name |-> "biome", category |-> "linter", versionFrom |-> "", hasCondition |-> FALSE],
    [packages |-> <<"prettier">>, name |-> "prettier", category |-> "formatter", versionFrom |-> "", hasCondition |-> FALSE],
    [packages |-> <<"next-intl">>, name |-> "next-intl", category |-> "i18n", versionFrom |-> "", hasCondition |-> FALSE],
    [packages |-> <<"i18next", "react-i18next">>, name |-> "i18next", category |-> "i18n", versionFrom |-> "", hasCondition |-> FALSE],
    [packages |-> <<"@lingui/core">>, name |-> "lingui", category |-> "i18n", versionFrom |-> "", hasCondition |-> FALSE],
    [packages |-> <<"react-intl">>, name |-> "react-intl", category |-> "i18n", versionFrom |-> "", hasCondition |-> FALSE],
    [packages |-> <<"turbo">>, name |-> "turborepo", category |-> "monorepo", versionFrom |-> "", hasCondition |-> FALSE],
    [packages |-> <<"nx">>, name |-> "nx", category |-> "monorepo", versionFrom |-> "", hasCondition |-> FALSE],
    [packages |-> <<"lerna">>, name |-> "lerna", category |-> "monorepo", versionFrom |-> "", hasCondition |-> FALSE],
    [packages |-> <<"pg", "postgres">>, name |-> "postgres", category |-> "database", versionFrom |-> "", hasCondition |-> FALSE],
    [packages |-> <<"mysql2">>, name |-> "mysql", category |-> "database", versionFrom |-> "", hasCondition |-> FALSE],
    [packages |-> <<"mongodb">>, name |-> "mongodb", category |-> "database", versionFrom |-> "", hasCondition |-> FALSE],
    [packages |-> <<"@supabase/supabase-js">>, name |-> "supabase", category |-> "database", versionFrom |-> "", hasCondition |-> FALSE],
    [packages |-> <<"@planetscale/database">>, name |-> "planetscale", category |-> "database", versionFrom |-> "", hasCondition |-> FALSE],
    [packages |-> <<"ioredis", "@upstash/redis">>, name |-> "redis", category |-> "database", versionFrom |-> "", hasCondition |-> FALSE],
    [packages |-> <<"@vercel/postgres">>, name |-> "vercel-postgres", category |-> "database", versionFrom |-> "", hasCondition |-> FALSE],
    [packages |-> <<"resend">>, name |-> "resend", category |-> "email", versionFrom |-> "", hasCondition |-> FALSE],
    [packages |-> <<"nodemailer">>, name |-> "nodemailer", category |-> "email", versionFrom |-> "", hasCondition |-> FALSE],
    [packages |-> <<"@sendgrid/mail">>, name |-> "sendgrid", category |-> "email", versionFrom |-> "", hasCondition |-> FALSE],
    [packages |-> <<"postmark">>, name |-> "postmark", category |-> "email", versionFrom |-> "", hasCondition |-> FALSE],
    [packages |-> <<"@react-email/components">>, name |-> "react-email", category |-> "email", versionFrom |-> "", hasCondition |-> FALSE],
    [packages |-> <<"uploadthing">>, name |-> "uploadthing", category |-> "file-upload", versionFrom |-> "", hasCondition |-> FALSE],
    [packages |-> <<"@vercel/blob">>, name |-> "vercel-blob", category |-> "file-upload", versionFrom |-> "", hasCondition |-> FALSE],
    [packages |-> <<"multer">>, name |-> "multer", category |-> "file-upload", versionFrom |-> "", hasCondition |-> FALSE],
    [packages |-> <<"@aws-sdk/client-s3">>, name |-> "s3", category |-> "file-upload", versionFrom |-> "", hasCondition |-> FALSE],
    [packages |-> <<"cloudinary">>, name |-> "cloudinary", category |-> "file-upload", versionFrom |-> "", hasCondition |-> FALSE],
    [packages |-> <<"stripe", "@stripe/stripe-js">>, name |-> "stripe", category |-> "payments", versionFrom |-> "", hasCondition |-> FALSE],
    [packages |-> <<"@lemonsqueezy/lemonsqueezy.js">>, name |-> "lemonsqueezy", category |-> "payments", versionFrom |-> "", hasCondition |-> FALSE],
    [packages |-> <<"socket.io", "socket.io-client">>, name |-> "socket.io", category |-> "realtime", versionFrom |-> "", hasCondition |-> FALSE],
    [packages |-> <<"pusher", "pusher-js">>, name |-> "pusher", category |-> "realtime", versionFrom |-> "", hasCondition |-> FALSE],
    [packages |-> <<"ably">>, name |-> "ably", category |-> "realtime", versionFrom |-> "", hasCondition |-> FALSE],
    [packages |-> <<"@supabase/realtime-js">>, name |-> "supabase-realtime", category |-> "realtime", versionFrom |-> "", hasCondition |-> FALSE],
    [packages |-> <<"contentlayer", "contentlayer2">>, name |-> "contentlayer", category |-> "cms", versionFrom |-> "", hasCondition |-> FALSE],
    [packages |-> <<"next-mdx-remote">>, name |-> "mdx-remote", category |-> "cms", versionFrom |-> "", hasCondition |-> FALSE],
    [packages |-> <<"@sanity/client">>, name |-> "sanity", category |-> "cms", versionFrom |-> "", hasCondition |-> FALSE],
    [packages |-> <<"@notionhq/client">>, name |-> "notion", category |-> "cms", versionFrom |-> "", hasCondition |-> FALSE],
    [packages |-> <<"contentful">>, name |-> "contentful", category |-> "cms", versionFrom |-> "", hasCondition |-> FALSE],
    [packages |-> <<"@strapi/strapi">>, name |-> "strapi", category |-> "cms", versionFrom |-> "", hasCondition |-> FALSE],
    [packages |-> <<"bullmq", "bull">>, name |-> "bullmq", category |-> "jobs", versionFrom |-> "", hasCondition |-> FALSE],
    [packages |-> <<"inngest">>, name |-> "inngest", category |-> "jobs", versionFrom |-> "", hasCondition |-> FALSE],
    [packages |-> <<"@trigger.dev/sdk">>, name |-> "trigger-dev", category |-> "jobs", versionFrom |-> "", hasCondition |-> FALSE],
    [packages |-> <<"@radix-ui/react-slot", "@radix-ui/react-dialog", "@radix-ui/react-dropdown-menu", "@radix-ui/react-separator">>, name |-> "shadcn", category |-> "ui-components", versionFrom |-> "__none__", hasCondition |-> TRUE],
    [packages |-> <<"@radix-ui/react-slot", "@radix-ui/react-dialog", "@radix-ui/react-dropdown-menu">>, name |-> "radix", category |-> "ui-components", versionFrom |-> "", hasCondition |-> FALSE],
    [packages |-> <<"@headlessui/react">>, name |-> "headless-ui", category |-> "ui-components", versionFrom |-> "", hasCondition |-> FALSE],
    [packages |-> <<"@ark-ui/react">>, name |-> "ark-ui", category |-> "ui-components", versionFrom |-> "", hasCondition |-> FALSE],
    [packages |-> <<"@nextui-org/react">>, name |-> "nextui", category |-> "ui-components", versionFrom |-> "", hasCondition |-> FALSE],
    [packages |-> <<"@tremor/react">>, name |-> "tremor", category |-> "ui-components", versionFrom |-> "", hasCondition |-> FALSE],
    [packages |-> <<"primereact">>, name |-> "primereact", category |-> "ui-components", versionFrom |-> "", hasCondition |-> FALSE],
    [packages |-> <<"react-bootstrap">>, name |-> "react-bootstrap", category |-> "ui-components", versionFrom |-> "", hasCondition |-> FALSE],
    [packages |-> <<"flowbite-react">>, name |-> "flowbite", category |-> "ui-components", versionFrom |-> "", hasCondition |-> FALSE],
    [packages |-> <<"@sentry/nextjs", "@sentry/node", "@sentry/react">>, name |-> "sentry", category |-> "observability", versionFrom |-> "", hasCondition |-> FALSE],
    [packages |-> <<"winston">>, name |-> "winston", category |-> "logging", versionFrom |-> "", hasCondition |-> FALSE],
    [packages |-> <<"pino">>, name |-> "pino", category |-> "logging", versionFrom |-> "", hasCondition |-> FALSE],
    [packages |-> <<"@vercel/analytics", "@vercel/speed-insights">>, name |-> "vercel", category |-> "deployment", versionFrom |-> "", hasCondition |-> FALSE],
    [packages |-> <<"@netlify/functions">>, name |-> "netlify", category |-> "deployment", versionFrom |-> "", hasCondition |-> FALSE],
    [packages |-> <<"wrangler", "@cloudflare/workers-types">>, name |-> "cloudflare", category |-> "deployment", versionFrom |-> "", hasCondition |-> FALSE]
  >>

JsNOISE_EXACT ==
  {
    "typescript", "tslib", "@types/node", "@types/react", "@types/react-dom",
    "eslint-config-next", "eslint-config-prettier", "autoprefixer", "postcss"
  }

JsNOISE_PREFIXES ==
  {
    "@types/", "@typescript-eslint/"
  }

JsFRAMEWORK_SKIP ==
  {
    "next", "nuxt", "react", "react-dom", "astro", "vite", "express", "fastify", "hono",
    "@remix-run/react", "@remix-run/node", "@sveltejs/kit", "@solidjs/start"
  }

\* ---- python: rule table, noise lists and framework packages (ecosystems/python.ts) ----

PyRULES ==
  <<
    [packages |-> <<"sqlalchemy">>, name |-> "sqlalchemy", category |-> "orm", versionFrom |-> "", hasCondition |-> FALSE],
    [packages |-> <<"tortoise-orm">>, name |-> "tortoise", category |-> "orm", versionFrom |-> "", hasCondition |-> FALSE],
    [packages |-> <<"peewee">>, name |-> "peewee", category |-> "orm", versionFrom |-> "", hasCondition |-> FALSE],
    [packages |-> <<"sqlmodel">>, name |-> "sqlmodel", category |-> "orm", versionFrom |-> "", hasCondition |-> FALSE],
    [packages |-> <<"mongoengine">>, name |-> "mongoengine", category |-> "orm", versionFrom |-> "", hasCondition |-> FALSE],
    [packages |-> <<"odmantic">>, name |-> "odmantic", category |-> "orm", versionFrom |-> "", hasCondition |-> FALSE],
    [packages |-> <<"psycopg2", "psycopg2-binary", "psycopg">>, name |-> "psycopg", category |-> "database", versionFrom |-> "", hasCondition |-> FALSE],
    [packages |-> <<"asyncpg">>, name |-> "asyncpg", category |-> "database", versionFrom |-> "", hasCondition |-> FALSE],
    [packages |-> <<"pymongo">>, name |-> "pymongo", category |-> "database", versionFrom |-> "", hasCondition |-> FALSE],
    [packages |-> <<"redis">>, name |-> "redis", category |-> "database", versionFrom |-> "", hasCondition |-> FALSE],
    [packages |-> <<"motor">>, name |-> "motor", category |-> "database", versionFrom |-> "", hasCondition |-> FALSE],
    [packages |-> <<"aioredis">>, name |-> "aioredis", category |-> "database", versionFrom |-> "", hasCondition |-> FALSE],
    [packages |-> <<"aiomysql", "pymysql">>, name |-> "mysql", category |-> "database", versionFrom |-> "", hasCondition |-> FALSE],
    [packages |-> <<"django-allauth">>, name |-> "django-allauth", category |-> "auth", versionFrom |-> "", hasCondition |-> FALSE],
    [packages |-> <<"python-jose", "pyjwt", "authlib">>, name |-> "jwt", category |-> "auth", versionFrom |-> "", hasCondition |-> FALSE],
    [packages |-> <<"passlib">>, name |-> "passlib", category |-> "auth", versionFrom |-> "", hasCondition |-> FALSE],
    [packages |-> <<"djangorestframework-simplejwt">>, name |-> "drf-simplejwt", category |-> "auth", versionFrom |-> "", hasCondition |-> FALSE],
    [packages |-> <<"pydantic">>, name |-> "pydantic", category |-> "validation", versionFrom |-> "", hasCondition |-> FALSE],
    [packages |-> <<"marshmallow">>, name |-> "marshmallow", category |-> "validation", versionFrom |-> "", hasCondition |-> FALSE],
    [packages |-> <<"cerberus">>, name |-> "cerberus", category |-> "validation", versionFrom |-> "", hasCondition |-> FALSE],
    [packages |-> <<"attrs">>, name |-> "attrs", category |-> "validation", versionFrom |-> "", hasCondition |-> FALSE],
    [packages |-> <<"pytest">>, name |-> "pytest", category |-> "testing", versionFrom |-> "", hasCondition |-> FALSE],
    [packages |-> <<"hypothesis">>, name |-> "hypothesis", category |-> "testing", versionFrom |-> "", hasCondition |-> FALSE],
    [packages |-> <<"factory-boy">>, name |-> "factory-boy", category |-> "testing", versionFrom |-> "", hasCondition |-> FALSE],
    [packages |-> <<"faker">>, name |-> "faker", category |-> "testing", versionFrom |-> "", hasCondition |-> FALSE],
    [packages |-> <<"pytest-cov">>, name |-> "pytest-cov", category |-> "testing", versionFrom |-> "", hasCondition |-> FALSE],
    [packages |-> <<"tox">>, name |-> "tox", category |-> "testing", versionFrom |-> "", hasCondition |-> FALSE],
    [packages |-> <<"nox">>, name |-> "nox", category |-> "testing", versionFrom |-> "", hasCondition |-> FALSE],
    [packages |-> <<"djangorestframework">>, name |-> "drf", category |-> "api", versionFrom |-> "", hasCondition |-> FALSE],
    [packages |-> <<"graphene", "strawberry-graphql", "ariadne">>, name |-> "graphql", category |-> "api", versionFrom |-> "", hasCondition |-> FALSE],
    [packages |-> <<"grpcio">>, name |-> "grpc", category |-> "api", versionFrom |-> "", hasCondition |-> FALSE],
    [packages |-> <<"django-ninja">>, name |-> "django-ninja", category |-> "api", versionFrom |-> "", hasCondition |-> FALSE],
    [packages |-> <<"celery">>, name |-> "celery", category |-> "jobs", versionFrom |-> "", hasCondition |-> FALSE],
    [packages |-> <<"dramatiq">>, name |-> "dramatiq", category |-> "jobs", versionFrom |-> "", hasCondition |-> FALSE],
    [packages |-> <<"rq">>, name |-> "rq", category |-> "jobs", versionFrom |-> "", hasCondition |-> FALSE],
    [packages |-> <<"huey">>, name |-> "huey", category |-> "jobs", versionFrom |-> "", hasCondition |-> FALSE],
    [packages |-> <<"alembic">>, name |-> "alembic", category |-> "migration", versionFrom |-> "", hasCondition |-> FALSE],
    [packages |-> <<"ruff">>, name |-> "ruff", category |-> "linter", versionFrom |-> "", hasCondition |-> FALSE],
    [packages |-> <<"black">>, name |-> "black", category |-> "formatter", versionFrom |-> "", hasCondition |-> FALSE],
    [packages |-> <<"flake8">>, name |-> "flake8", category |-> "linter", versionFrom |-> "", hasCondition |-> FALSE],
    [packages |-> <<"isort">>, name |-> "isort", category |-> "formatter", versionFrom |-> "", hasCondition |-> FALSE],
    [packages |-> <<"pylint">>, name |-> "pylint", category |-> "linter", versionFrom |-> "", hasCondition |-> FALSE],
    [packages |-> <<"mypy">>, name |-> "mypy", category |-> "type-checker", versionFrom |-> "", hasCondition |-> FALSE],
    [packages |-> <<"pyright">>, name |-> "pyright", category |-> "type-checker", versionFrom |-> "", hasCondition |-> FALSE],
    [packages |-> <<"httpx">>, name |-> "httpx", category |-> "http-client", versionFrom |-> "", hasCondition |-> FALSE],
    [packages |-> <<"requests">>, name |-> "requests", category |-> "http-client", versionFrom |-> "", hasCondition |-> FALSE],
    [packages |-> <<"jinja2">>, name |-> "jinja2", category |-> "template", versionFrom |-> "", hasCondition |-> FALSE],
    [packages |-> <<"mako">>, name |-> "mako", category |-> "template", versionFrom |-> "", hasCondition |-> FALSE],
    [packages |-> <<"django-anymail">>, name |-> "anymail", category |-> "email", versionFrom |-> "", hasCondition |-> FALSE],
    [packages |-> <<"uvicorn">>, name |-> "uvicorn", category |-> "server", versionFrom |-> "", hasCondition |-> FALSE],
    [packages |-> <<"gunicorn">>, name |-> "gunicorn", category |-> "server", versionFrom |-> "", hasCondition |-> FALSE],
    [packages |-> <<"hypercorn">>, name |-> "hypercorn", category |-> "server", versionFrom |-> "", hasCondition |-> FALSE],
    [packages |-> <<"python-dotenv">>, name |-> "dotenv", category |-> "config", versionFrom |-> "", hasCondition |-> FALSE],
    [packages |-> <<"pydantic-settings">>, name |-> "pydantic-settings", category |-> "config", versionFrom |-> "", hasCondition |-> FALSE],
    [packages |-> <<"dynaconf">>, name |-> "dynaconf", category |-> "config", versionFrom |-> "", hasCondition |-> FALSE],
    [packages |-> <<"django-admin-interface">>, name |-> "django-admin-interface", category |-> "admin", versionFrom |-> "", hasCondition |-> FALSE],
    [packages |-> <<"django-cors-headers">>, name |-> "django-cors-headers", category |-> "middleware", versionFrom |-> "", hasCondition |-> FALSE],
    [packages |-> <<"django-redis">>, name |-> "django-redis", category |-> "caching", versionFrom |-> "", hasCondition |-> FALSE],
    [packages |-> <<"stripe">>, name |-> "stripe", category |-> "payments", versionFrom |-> "", hasCondition |-> FALSE]
  >>

PyNOISE_EXACT ==
  {
    "setuptools", "wheel", "pip", "build", "twine", "flit", "flit-core", "hatchling",
    "hatch-vcs", "pdm", "pdm-backend", "pdm-pep517", "poetry-core", "poetry-plugin-export",
    "typing-extensions", "mypy-extensions", "importlib-metadata", "importlib-resources",
    "six", "future", "backports", "packaging", "distlib", "filelock", "platformdirs",
    "virtualenv", "certifi", "charset-normalizer", "idna", "urllib3"
  }

PyNOISE_PREFIXES ==
  {
    "types-"
  }

PyFRAMEWORK_PACKAGES ==
  {
    "django", "flask", "fastapi", "starlette", "litestar", "sanic", "tornado", "pyramid",
    "bottle", "aiohttp"
  }

\* ---- rust: rule table, noise lists and framework packages (ecosystems/rust.ts) ----

RustRULES ==
  <<
    [packages |-> <<"diesel">>, name |-> "diesel", category |-> "orm", versionFrom |-> "", hasCondition |-> FALSE],
    [packages |-> <<"sea-orm">>, name |-> "sea-orm", category |-> "orm", versionFrom |-> "", hasCondition |-> FALSE],
    [packages |-> <<"sqlx">>, name |-> "sqlx", category |-> "database", versionFrom |-> "", hasCondition |-> FALSE],
    [packages |-> <<"rusqlite">>, name |-> "rusqlite", category |-> "database", versionFrom |-> "", hasCondition |-> FALSE],
    [packages |-> <<"mongodb">>, name |-> "mongodb", category |-> "database", versionFrom |-> "", hasCondition |-> FALSE],
    [packages |-> <<"redis">>, name |-> "redis", category |-> "database", versionFrom |-> "", hasCondition |-> FALSE],
    [packages |-> <<"deadpool-postgres", "deadpool-redis", "deadpool">>, name |-> "deadpool", category |-> "database", versionFrom |-> "", hasCondition |-> FALSE],
    [packages |-> <<"serde">>, name |-> "serde", category |-> "serialization", versionFrom |-> "", hasCondition |-> FALSE],
    [packages |-> <<"serde_json">>, name |-> "serde-json", category |-> "serialization", versionFrom |-> "", hasCondition |-> FALSE],
    [packages |-> <<"tokio">>, name |-> "tokio", category |-> "async-runtime", versionFrom |-> "", hasCondition |-> FALSE],
    [packages |-> <<"async-std">>, name |-> "async-std", category |-> "async-runtime", versionFrom |-> "", hasCondition |-> FALSE],
    [packages |-> <<"jsonwebtoken">>, name |-> "jsonwebtoken", category |-> "auth", versionFrom |-> "", hasCondition |-> FALSE],
    [packages |-> <<"oauth2">>, name |-> "oauth2", category |-> "auth", versionFrom |-> "", hasCondition |-> FALSE],
    [packages |-> <<"argon2">>, name |-> "argon2", category |-> "auth", versionFrom |-> "", hasCondition |-> FALSE],
    [packages |-> <<"validator">>, name |-> "validator", category |-> "validation", versionFrom |-> "", hasCondition |-> FALSE],
    [packages |-> <<"criterion">>, name |-> "criterion", category |-> "testing", versionFrom |-> "", hasCondition |-> FALSE],
    [packages |-> <<"mockall">>, name |-> "mockall", category |-> "testing", versionFrom |-> "", hasCondition |-> FALSE],
    [packages |-> <<"wiremock">>, name |-> "wiremock", category |-> "testing", versionFrom |-> "", hasCondition |-> FALSE],
    [packages |-> <<"proptest">>, name |-> "proptest", category |-> "testing", versionFrom |-> "", hasCondition |-> FALSE],
    [packages |-> <<"insta">>, name |-> "insta", category |-> "testing", versionFrom |-> "", hasCondition |-> FALSE],
    [packages |-> <<"anyhow">>, name |-> "anyhow", category |-> "error-handling", versionFrom |-> "", hasCondition |-> FALSE],
    [packages |-> <<"thiserror">>, name |-> "thiserror", category |-> "error-handling", versionFrom |-> "", hasCondition |-> FALSE],
    [packages |-> <<"eyre", "color-eyre">>, name |-> "eyre", category |-> "error-handling", versionFrom |-> "", hasCondition |-> FALSE],
    [packages |-> <<"clap">>, name |-> "clap", category |-> "cli", versionFrom |-> "", hasCondition |-> FALSE],
    [packages |-> <<"structopt">>, name |-> "structopt", category |-> "cli", versionFrom |-> "", hasCondition |-> FALSE],
    [packages |-> <<"tracing">>, name |-> "tracing", category |-> "logging", versionFrom |-> "", hasCondition |-> FALSE],
    [packages |-> <<"log">>, name |-> "log", category |-> "logging", versionFrom |-> "", hasCondition |-> FALSE],
    [packages |-> <<"env_logger">>, name |-> "env_logger", category |-> "logging", versionFrom |-> "", hasCondition |-> FALSE],
    [packages |-> <<"config">>, name |-> "config", category |-> "config", versionFrom |-> "", hasCondition |-> FALSE],
    [packages |-> <<"dotenvy">>, name |-> "dotenvy", category |-> "config", versionFrom |-> "", hasCondition |-> FALSE],
    [packages |-> <<"askama">>, name |-> "askama", category |-> "template", versionFrom |-> "", hasCondition |-> FALSE],
    [packages |-> <<"tera">>, name |-> "tera", category |-> "template", versionFrom |-> "", hasCondition |-> FALSE],
    [packages |-> <<"handlebars">>, name |-> "handlebars", category |-> "template", versionFrom |-> "", hasCondition |-> FALSE],
    [packages |-> <<"reqwest">>, name |-> "reqwest", category |-> "http-client", versionFrom |-> "", hasCondition |-> FALSE],
    [packages |-> <<"tonic">>, name |-> "tonic", category |-> "api", versionFrom |-> "", hasCondition |-> FALSE],
    [packages |-> <<"prost">>, name |-> "prost", category |-> "api", versionFrom |-> "", hasCondition |-> FALSE]
  >>

RustNOISE_EXACT ==
  {
    "proc-macro2", "quote", "syn", "unicode-ident", "unicode-xid", "unicode-normalization",
    "unicode-bidi", "unicode-segmentation", "libc", "cc", "autocfg", "memchr",
    "lazy_static", "once_cell", "cfg-if", "bitflags", "num-traits", "num-integer",
    "num-cpus", "parking_lot", "parking_lot_core", "lock_api", "scopeguard", "smallvec",
    "tinyvec", "arrayvec", "bytes", "byteorder", "itoa", "ryu", "dtoa", "percent-encoding",
    "form_urlencoded", "url", "http", "http-body", "httparse", "mime", "pin-project",
    "pin-project-lite", "pin-utils", "futures", "futures-core", "futures-util",
    "futures-sink", "futures-channel", "futures-io", "futures-task", "futures-macro",
    "mio", "socket2", "signal-hook", "signal-hook-registry", "crossbeam",
    "crossbeam-utils", "crossbeam-channel", "crossbeam-deque", "crossbeam-epoch",
    "crossbeam-queue", "rand", "rand_core", "rand_chacha", "getrandom", "regex",
    "regex-syntax", "aho-corasick", "base64", "hex", "sha2", "sha1", "md-5", "digest",
    "generic-array", "typenum", "crypto-common", "block-buffer", "subtle", "chrono",
    "time", "humantime", "indexmap", "hashbrown", "ahash", "strum", "strum_macros",
    "derive_more", "paste", "thiserror-impl", "serde_derive"
  }

RustNOISE_PREFIXES ==
  {
    "windows-", "winapi-"
  }

RustFRAMEWORK_PACKAGES ==
  {
    "actix-web", "axum", "rocket", "warp", "tide", "poem", "hyper"
  }

\* ---- go: rule table, noise lists and framework packages (ecosystem.ts (Go adapter)) ----

GoRULES ==
  <<
    [modules |-> <<"gorm.io/gorm">>, name |-> "gorm", category |-> "orm", versionFrom |-> "", hasCondition |-> FALSE],
    [modules |-> <<"entgo.io/ent">>, name |-> "ent", category |-> "orm", versionFrom |-> "", hasCondition |-> FALSE],
    [modules |-> <<"github.com/jmoiron/sqlx">>, name |-> "sqlx", category |-> "database", versionFrom |-> "", hasCondition |-> FALSE],
    [modules |-> <<"go.mongodb.org/mongo-driver">>, name |-> "mongo-driver", category |-> "database", versionFrom |-> "", hasCondition |-> FALSE],
    [modules |-> <<"github.com/redis/go-redis", "github.com/go-redis/redis">>, name |-> "go-redis", category |-> "database", versionFrom |-> "", hasCondition |-> FALSE],
    [modules |-> <<"github.com/jackc/pgx">>, name |-> "pgx", category |-> "database", versionFrom |-> "", hasCondition |-> FALSE],
    [modules |-> <<"github.com/stretchr/testify">>, name |-> "testify", category |-> "testing", versionFrom |-> "", hasCondition |-> FALSE],
    [modules |-> <<"github.com/onsi/ginkgo">>, name |-> "ginkgo", category |-> "testing", versionFrom |-> "", hasCondition |-> FALSE],
    [modules |-> <<"github.com/onsi/gomega">>, name |-> "gomega", category |-> "testing", versionFrom |-> "", hasCondition |-> FALSE],
    [modules |-> <<"github.com/golang/mock", "go.uber.org/mock">>, name |-> "gomock", category |-> "testing", versionFrom |-> "", hasCondition |-> FALSE],
    [modules |-> <<"github.com/spf13/cobra">>, name |-> "cobra", category |-> "cli", versionFrom |-> "", hasCondition |-> FALSE],
    [modules |-> <<"github.com/urfave/cli">>, name |-> "urfave-cli", category |-> "cli", versionFrom |-> "", hasCondition |-> FALSE],
    [modules |-> <<"github.com/spf13/viper">>, name |-> "viper", category |-> "config", versionFrom |-> "", hasCondition |-> FALSE],
    [modules |-> <<"github.com/joho/godotenv">>, name |-> "godotenv", category |-> "config", versionFrom |-> "", hasCondition |-> FALSE],
    [modules |-> <<"github.com/kelseyhightower/envconfig">>, name |-> "envconfig", category |-> "config", versionFrom |-> "", hasCondition |-> FALSE],
    [modules |-> <<"go.uber.org/zap">>, name |-> "zap", category |-> "logging", versionFrom |-> "", hasCondition |-> FALSE],
    [modules |-> <<"github.com/sirupsen/logrus">>, name |-> "logrus", category |-> "logging", versionFrom |-> "", hasCondition |-> FALSE],
    [modules |-> <<"github.com/rs/zerolog">>, name |-> "zerolog", category |-> "logging", versionFrom |-> "", hasCondition |-> FALSE],
    [modules |-> <<"github.com/go-playground/validator">>, name |-> "go-validator", category |-> "validation", versionFrom |-> "", hasCondition |-> FALSE],
    [modules |-> <<"github.com/golang-jwt/jwt">>, name |-> "golang-jwt", category |-> "auth", versionFrom |-> "", hasCondition |-> FALSE],
    [modules |-> <<"github.com/coreos/go-oidc">>, name |-> "go-oidc", category |-> "auth", versionFrom |-> "", hasCondition |-> FALSE],
    [modules |-> <<"golang.org/x/oauth2">>, name |-> "oauth2", category |-> "auth", versionFrom |-> "", hasCondition |-> FALSE],
    [modules |-> <<"google.golang.org/grpc">>, name |-> "grpc-go", category |-> "api", versionFrom |-> "", hasCondition |-> FALSE],
    [modules |-> <<"google.golang.org/protobuf">>, name |-> "protobuf", category |-> "api", versionFrom |-> "", hasCondition |-> FALSE],
    [modules |-> <<"github.com/99designs/gqlgen">>, name |-> "gqlgen", category |-> "api", versionFrom |-> "", hasCondition |-> FALSE],
    [modules |-> <<"github.com/go-resty/resty">>, name |-> "resty", category |-> "http-client", versionFrom |-> "", hasCondition |-> FALSE],
    [modules |-> <<"go.opentelemetry.io/otel">>, name |-> "opentelemetry", category |-> "observability", versionFrom |-> "", hasCondition |-> FALSE],
    [modules |-> <<"github.com/prometheus/client_golang">>, name |-> "prometheus", category |-> "observability", versionFrom |-> "", hasCondition |-> FALSE],
    [modules |-> <<"github.com/golang-migrate/migrate">>, name |-> "golang-migrate", category |-> "migration", versionFrom |-> "", hasCondition |-> FALSE],
    [modules |-> <<"github.com/pressly/goose">>, name |-> "goose", category |-> "migration", versionFrom |-> "", hasCondition |-> FALSE]
  >>

GoNOISE_PREFIXES ==
  {
    "golang.org/x/sys", "golang.org/x/text", "golang.org/x/net", "golang.org/x/crypto",
    "golang.org/x/sync", "golang.org/x/time", "golang.org/x/exp", "golang.org/x/tools",
    "golang.org/x/mod", "golang.org/x/term", "golang.org/x/xerrors",
    "github.com/google/go-cmp", "github.com/davecgh/go-spew",
    "github.com/pmezard/go-difflib", "github.com/stretchr/objx", "github.com/kr/pretty",
    "github.com/kr/text", "github.com/rogpeppe/go-internal",
    "github.com/cpuguy83/go-md2man", "github.com/russross/blackfriday",
    "github.com/inconshreveable/mousetrap"
  }

GoFRAMEWORK_MODULES ==
  {
    "github.com/gin-gonic/gin", "github.com/labstack/echo", "github.com/gofiber/fiber",
    "github.com/go-chi/chi", "github.com/gorilla/mux",
    "github.com/julienschmidt/httprouter"
  }

\* ---- java: rule table, noise lists and framework packages (ecosystems/java.ts) ----

JavaRULES ==
  <<
    [packages |-> <<"org.hibernate:hibernate-core", "org.hibernate.orm:hibernate-core">>, name |-> "hibernate", category |-> "orm", versionFrom |-> "", hasCondition |-> FALSE],
    [packages |-> <<"org.springframework.data:spring-data-jpa">>, name |-> "spring-data-jpa", category |-> "orm", versionFrom |-> "", hasCondition |-> FALSE],
    [packages |-> <<"org.mybatis:mybatis", "org.mybatis.spring.boot:mybatis-spring-boot-starter">>, name |-> "mybatis", category |-> "orm", versionFrom |-> "", hasCondition |-> FALSE],
    [packages |-> <<"org.jooq:jooq">>, name |-> "jooq", category |-> "orm", versionFrom |-> "", hasCondition |-> FALSE],
    [packages |-> <<"org.flywaydb:flyway-core">>, name |-> "flyway", category |-> "migration", versionFrom |-> "", hasCondition |-> FALSE],
    [packages |-> <<"org.liquibase:liquibase-core">>, name |-> "liquibase", category |-> "migration", versionFrom |-> "", hasCondition |-> FALSE],
    [packages |-> <<"org.postgresql:postgresql">>, name |-> "postgresql", category |-> "database", versionFrom |-> "", hasCondition |-> FALSE],
    [packages |-> <<"com.mysql:mysql-connector-j", "mysql:mysql-connector-java">>, name |-> "mysql", category |-> "database", versionFrom |-> "", hasCondition |-> FALSE],
    [packages |-> <<"org.mongodb:mongodb-driver-sync", "org.mongodb:mongodb-driver-reactivestreams">>, name |-> "mongodb", category |-> "database", versionFrom |-> "", hasCondition |-> FALSE],
    [packages |-> <<"redis.clients:jedis">>, name |-> "jedis", category |-> "database", versionFrom |-> "", hasCondition |-> FALSE],
    [packages |-> <<"io.lettuce:lettuce-core">>, name |-> "lettuce", category |-> "database", versionFrom |-> "", hasCondition |-> FALSE],
    [packages |-> <<"org.junit.jupiter:junit-jupiter", "org.junit.jupiter:junit-jupiter-api">>, name |-> "junit5", category |-> "testing", versionFrom |-> "", hasCondition |-> FALSE],
    [packages |-> <<"junit:junit">>, name |-> "junit4", category |-> "testing", versionFrom |-> "", hasCondition |-> FALSE],
    [packages |-> <<"org.mockito:mockito-core", "org.mockito:mockito-junit-jupiter">>, name |-> "mockito", category |-> "testing", versionFrom |-> "", hasCondition |-> FALSE],
    [packages |-> <<"org.assertj:assertj-core">>, name |-> "assertj", category |-> "testing", versionFrom |-> "", hasCondition |-> FALSE],
    [packages |-> <<"io.rest-assured:rest-assured">>, name |-> "rest-assured", category |-> "testing", versionFrom |-> "", hasCondition |-> FALSE],
    [packages |-> <<"org.testcontainers:testcontainers">>, name |-> "testcontainers", category |-> "testing", versionFrom |-> "", hasCondition |-> FALSE],
    [packages |-> <<"org.springframework.boot:spring-boot-starter-security", "org.springframework.security:spring-security-core">>, name |-> "spring-security", category |-> "auth", versionFrom |-> "", hasCondition |-> FALSE],
    [packages |-> <<"io.jsonwebtoken:jjwt", "io.jsonwebtoken:jjwt-api">>, name |-> "jjwt", category |-> "auth", versionFrom |-> "", hasCondition |-> FALSE],
    [packages |-> <<"org.keycloak:keycloak-core", "org.keycloak:keycloak-spring-boot-starter">>, name |-> "keycloak", category |-> "auth", versionFrom |-> "", hasCondition |-> FALSE],
    [packages |-> <<"jakarta.validation:jakarta.validation-api", "javax.validation:validation-api">>, name |-> "bean-validation", category |-> "validation", versionFrom |-> "", hasCondition |-> FALSE],
    [packages |-> <<"com.fasterxml.jackson.core:jackson-databind">>, name |-> "jackson", category |-> "serialization", versionFrom |-> "", hasCondition |-> FALSE],
    [packages |-> <<"com.google.code.gson:gson">>, name |-> "gson", category |-> "serialization", versionFrom |-> "", hasCondition |-> FALSE],
    [packages |-> <<"org.slf4j:slf4j-api">>, name |-> "slf4j", category |-> "logging", versionFrom |-> "", hasCondition |-> FALSE],
    [packages |-> <<"ch.qos.logback:logback-classic">>, name |-> "logback", category |-> "logging", versionFrom |-> "", hasCondition |-> FALSE],
    [packages |-> <<"org.apache.logging.log4j:log4j-core">>, name |-> "log4j2", category |-> "logging", versionFrom |-> "", hasCondition |-> FALSE],
    [packages |-> <<"io.grpc:grpc-core", "io.grpc:grpc-netty">>, name |-> "grpc-java", category |-> "api", versionFrom |-> "", hasCondition |-> FALSE],
    [packages |-> <<"io.swagger.core.v3:swagger-core", "io.swagger.core.v3:swagger-annotations">>, name |-> "swagger", category |-> "api", versionFrom |-> "", hasCondition |-> FALSE],
    [packages |-> <<"org.springdoc:springdoc-openapi-starter-webmvc-ui", "org.springdoc:springdoc-openapi-ui">>, name |-> "springdoc", category |-> "api", versionFrom |-> "", hasCondition |-> FALSE],
    [packages |-> <<"com.graphql-java:graphql-java">>, name |-> "graphql-java", category |-> "api", versionFrom |-> "", hasCondition |-> FALSE],
    [packages |-> <<"org.projectlombok:lombok">>, name |-> "lombok", category |-> "bundler", versionFrom |-> "", hasCondition |-> FALSE],
    [packages |-> <<"org.mapstruct:mapstruct">>, name |-> "mapstruct", category |-> "bundler", versionFrom |-> "", hasCondition |-> FALSE],
    [packages |-> <<"com.google.errorprone:error_prone_core">>, name |-> "error-prone", category |-> "linter", versionFrom |-> "", hasCondition |-> FALSE],
    [packages |-> <<"com.google.dagger:dagger">>, name |-> "dagger", category |-> "bundler", versionFrom |-> "", hasCondition |-> FALSE],
    [packages |-> <<"io.micrometer:micrometer-core">>, name |-> "micrometer", category |-> "observability", versionFrom |-> "", hasCondition |-> FALSE],
    [packages |-> <<"io.opentelemetry:opentelemetry-api">>, name |-> "opentelemetry", category |-> "observability", versionFrom |-> "", hasCondition |-> FALSE],
    [packages |-> <<"org.apache.httpcomponents.client5:httpclient5", "org.apache.httpcomponents:httpclient">>, name |-> "httpclient", category |-> "http-client", versionFrom |-> "", hasCondition |-> FALSE],
    [packages |-> <<"com.squareup.okhttp3:okhttp">>, name |-> "okhttp", category |-> "http-client", versionFrom |-> "", hasCondition |-> FALSE],
    [packages |-> <<"org.thymeleaf:thymeleaf">>, name |-> "thymeleaf", category |-> "template", versionFrom |-> "", hasCondition |-> FALSE],
    [packages |-> <<"org.freemarker:freemarker">>, name |-> "freemarker", category |-> "template", versionFrom |-> "", hasCondition |-> FALSE],
    [packages |-> <<"org.quartz-scheduler:quartz">>, name |-> "quartz", category |-> "jobs", versionFrom |-> "", hasCondition |-> FALSE],
    [packages |-> <<"org.springframework.kafka:spring-kafka">>, name |-> "spring-kafka", category |-> "jobs", versionFrom |-> "", hasCondition |-> FALSE]
  >>

JavaNOISE_PREFIXES ==
  {
    "org.apache.maven", "org.codehaus.mojo", "org.sonatype",
    "org.jetbrains.kotlin:kotlin-stdlib", "org.jetbrains.kotlin:kotlin-reflect",
    "org.jetbrains:annotations", "javax.annotation:javax.annotation-api",
    "jakarta.annotation:jakarta.annotation-api", "com.google.guava:guava",
    "commons-io:commons-io", "org.apache.commons:commons-lang3",
    "org.apache.commons:commons-collections4"
  }

JavaFRAMEWORK_PACKAGES ==
  {
    "org.springframework.boot:spring-boot-starter-web",
    "org.springframework.boot:spring-boot-starter-webflux", "io.quarkus:quarkus-core",
    "io.quarkus:quarkus-resteasy", "io.micronaut:micronaut-core",
    "io.micronaut:micronaut-http-server", "io.vertx:vertx-core", "io.vertx:vertx-web",
    "io.javalin:javalin"
  }

\* ---- php: rule table, noise lists and framework packages (ecosystems/php.ts) ----

PhpRULES ==
  <<
    [packages |-> <<"doctrine/orm", "doctrine/dbal">>, name |-> "doctrine", category |-> "orm", versionFrom |-> "", hasCondition |-> FALSE],
    [packages |-> <<"illuminate/database">>, name |-> "eloquent", category |-> "orm", versionFrom |-> "", hasCondition |-> FALSE],
    [packages |-> <<"cycle/orm">>, name |-> "cycle-orm", category |-> "orm", versionFrom |-> "", hasCondition |-> FALSE],
    [packages |-> <<"propel/propel">>, name |-> "propel", category |-> "orm", versionFrom |-> "", hasCondition |-> FALSE],
    [packages |-> <<"predis/predis">>, name |-> "predis", category |-> "database", versionFrom |-> "", hasCondition |-> FALSE],
    [packages |-> <<"mongodb/mongodb">>, name |-> "mongodb", category |-> "database", versionFrom |-> "", hasCondition |-> FALSE],
    [packages |-> <<"phpredis/phpredis">>, name |-> "phpredis", category |-> "database", versionFrom |-> "", hasCondition |-> FALSE],
    [packages |-> <<"doctrine/migrations">>, name |-> "doctrine-migrations", category |-> "migration", versionFrom |-> "", hasCondition |-> FALSE],
    [packages |-> <<"phinx/phinx", "robmorgan/phinx">>, name |-> "phinx", category |-> "migration", versionFrom |-> "", hasCondition |-> FALSE],
    [packages |-> <<"phpunit/phpunit">>, name |-> "phpunit", category |-> "testing", versionFrom |-> "", hasCondition |-> FALSE],
    [packages |-> <<"pestphp/pest">>, name |-> "pest", category |-> "testing", versionFrom |-> "", hasCondition |-> FALSE],
    [packages |-> <<"phpspec/phpspec">>, name |-> "phpspec", category |-> "testing", versionFrom |-> "", hasCondition |-> FALSE],
    [packages |-> <<"codeception/codeception">>, name |-> "codeception", category |-> "testing", versionFrom |-> "", hasCondition |-> FALSE],
    [packages |-> <<"mockery/mockery">>, name |-> "mockery", category |-> "testing", versionFrom |-> "", hasCondition |-> FALSE],
    [packages |-> <<"phpstan/phpstan">>, name |-> "phpstan", category |-> "linter", versionFrom |-> "", hasCondition |-> FALSE],
    [packages |-> <<"vimeo/psalm">>, name |-> "psalm", category |-> "linter", versionFrom |-> "", hasCondition |-> FALSE],
    [packages |-> <<"squizlabs/php_codesniffer">>, name |-> "phpcs", category |-> "linter", versionFrom |-> "", hasCondition |-> FALSE],
    [packages |-> <<"friendsofphp/php-cs-fixer">>, name |-> "php-cs-fixer", category |-> "formatter", versionFrom |-> "", hasCondition |-> FALSE],
    [packages |-> <<"laravel/pint">>, name |-> "pint", category |-> "formatter", versionFrom |-> "", hasCondition |-> FALSE],
    [packages |-> <<"rector/rector">>, name |-> "rector", category |-> "linter", versionFrom |-> "", hasCondition |-> FALSE],
    [packages |-> <<"brianium/paratest">>, name |-> "paratest", category |-> "testing", versionFrom |-> "", hasCondition |-> FALSE],
    [packages |-> <<"laravel/dusk">>, name |-> "dusk", category |-> "testing", versionFrom |-> "", hasCondition |-> FALSE],
    [packages |-> <<"laravel/sanctum">>, name |-> "sanctum", category |-> "auth", versionFrom |-> "", hasCondition |-> FALSE],
    [packages |-> <<"laravel/passport">>, name |-> "passport", category |-> "auth", versionFrom |-> "", hasCondition |-> FALSE],
    [packages |-> <<"tymon/jwt-auth">>, name |-> "jwt-auth", category |-> "auth", versionFrom |-> "", hasCondition |-> FALSE],
    [packages |-> <<"lcobucci/jwt">>, name |-> "lcobucci-jwt", category |-> "auth", versionFrom |-> "", hasCondition |-> FALSE],
    [packages |-> <<"laravel/socialite">>, name |-> "socialite", category |-> "auth", versionFrom |-> "", hasCondition |-> FALSE],
    [packages |-> <<"laravel/fortify">>, name |-> "fortify", category |-> "auth", versionFrom |-> "", hasCondition |-> FALSE],
    [packages |-> <<"laravel/breeze">>, name |-> "breeze", category |-> "auth", versionFrom |-> "", hasCondition |-> FALSE],
    [packages |-> <<"laravel/jetstream">>, name |-> "jetstream", category |-> "auth", versionFrom |-> "", hasCondition |-> FALSE],
    [packages |-> <<"symfony/security-bundle">>, name |-> "symfony-security", category |-> "auth", versionFrom |-> "", hasCondition |-> FALSE],
    [packages |-> <<"symfony/security-csrf">>, name |-> "symfony-csrf", category |-> "auth", versionFrom |-> "", hasCondition |-> FALSE],
    [packages |-> <<"respect/validation">>, name |-> "respect-validation", category |-> "validation", versionFrom |-> "", hasCondition |-> FALSE],
    [packages |-> <<"rakit/validation">>, name |-> "rakit-validation", category |-> "validation", versionFrom |-> "", hasCondition |-> FALSE],
    [packages |-> <<"symfony/validator">>, name |-> "symfony-validator", category |-> "validation", versionFrom |-> "", hasCondition |-> FALSE],
    [packages |-> <<"twig/twig">>, name |-> "twig", category |-> "template", versionFrom |-> "", hasCondition |-> FALSE],
    [packages |-> <<"api-platform/core">>, name |-> "api-platform", category |-> "api", versionFrom |-> "", hasCondition |-> FALSE],
    [packages |-> <<"league/fractal">>, name |-> "fractal", category |-> "api", versionFrom |-> "", hasCondition |-> FALSE],
    [packages |-> <<"webonyx/graphql-php">>, name |-> "graphql-php", category |-> "api", versionFrom |-> "", hasCondition |-> FALSE],
    [packages |-> <<"grpc/grpc">>, name |-> "grpc-php", category |-> "api", versionFrom |-> "", hasCondition |-> FALSE],
    [packages |-> <<"nelmio/api-doc-bundle">>, name |-> "nelmio-api-doc", category |-> "api", versionFrom |-> "", hasCondition |-> FALSE],
    [packages |-> <<"knuckleswtf/scribe">>, name |-> "scribe", category |-> "api", versionFrom |-> "", hasCondition |-> FALSE],
    [packages |-> <<"spatie/laravel-data">>, name |-> "laravel-data", category |-> "api", versionFrom |-> "", hasCondition |-> FALSE],
    [packages |-> <<"spatie/laravel-query-builder">>, name |-> "laravel-query-builder", category |-> "api", versionFrom |-> "", hasCondition |-> FALSE],
    [packages |-> <<"laravel/octane">>, name |-> "octane", category |-> "server", versionFrom |-> "", hasCondition |-> FALSE],
    [packages |-> <<"guzzlehttp/guzzle">>, name |-> "guzzle", category |-> "http-client", versionFrom |-> "", hasCondition |-> FALSE],
    [packages |-> <<"symfony/http-client">>, name |-> "symfony-http-client", category |-> "http-client", versionFrom |-> "", hasCondition |-> FALSE],
    [packages |-> <<"php-amqplib/php-amqplib">>, name |-> "amqp", category |-> "jobs", versionFrom |-> "", hasCondition |-> FALSE],
    [packages |-> <<"laravel/horizon">>, name |-> "horizon", category |-> "jobs", versionFrom |-> "", hasCondition |-> FALSE],
    [packages |-> <<"symfony/messenger">>, name |-> "symfony-messenger", category |-> "jobs", versionFrom |-> "", hasCondition |-> FALSE],
    [packages |-> <<"enqueue/enqueue-bundle">>, name |-> "enqueue", category |-> "jobs", versionFrom |-> "", hasCondition |-> FALSE],
    [packages |-> <<"monolog/monolog">>, name |-> "monolog", category |-> "logging", versionFrom |-> "", hasCondition |-> FALSE],
    [packages |-> <<"vlucas/phpdotenv">>, name |-> "phpdotenv", category |-> "config", versionFrom |-> "", hasCondition |-> FALSE],
    [packages |-> <<"symfony/dotenv">>, name |-> "symfony-dotenv", category |-> "config", versionFrom |-> "", hasCondition |-> FALSE],
    [packages |-> <<"laravel/nova">>, name |-> "nova", category |-> "admin", versionFrom |-> "", hasCondition |-> FALSE],
    [packages |-> <<"filament/filament">>, name |-> "filament", category |-> "admin", versionFrom |-> "", hasCondition |-> FALSE],
    [packages |-> <<"easycorp/easyadmin-bundle">>, name |-> "easyadmin", category |-> "admin", versionFrom |-> "", hasCondition |-> FALSE],
    [packages |-> <<"sonata-project/admin-bundle">>, name |-> "sonata-admin", category |-> "admin", versionFrom |-> "", hasCondition |-> FALSE],
    [packages |-> <<"stripe/stripe-php">>, name |-> "stripe", category |-> "payments", versionFrom |-> "", hasCondition |-> FALSE],
    [packages |-> <<"laravel/cashier">>, name |-> "cashier", category |-> "payments", versionFrom |-> "", hasCondition |-> FALSE],
    [packages |-> <<"laravel/cashier-paddle">>, name |-> "cashier-paddle", category |-> "payments", versionFrom |-> "", hasCondition |-> FALSE],
    [packages |-> <<"symfony/mailer">>, name |-> "symfony-mailer", category |-> "email", versionFrom |-> "", hasCondition |-> FALSE],
    [packages |-> <<"phpmailer/phpmailer">>, name |-> "phpmailer", category |-> "email", versionFrom |-> "", hasCondition |-> FALSE],
    [packages |-> <<"mailgun/mailgun-php">>, name |-> "mailgun", category |-> "email", versionFrom |-> "", hasCondition |-> FALSE],
    [packages |-> <<"sentry/sentry-laravel", "sentry/sentry-symfony", "sentry/sentry">>, name |-> "sentry", category |-> "observability", versionFrom |-> "", hasCondition |-> FALSE],
    [packages |-> <<"laravel/telescope">>, name |-> "telescope", category |-> "observability", versionFrom |-> "", hasCondition |-> FALSE],
    [packages |-> <<"barryvdh/laravel-debugbar">>, name |-> "debugbar", category |-> "observability", versionFrom |-> "", hasCondition |-> FALSE],
    [packages |-> <<"symfony/web-profiler-bundle">>, name |-> "symfony-profiler", category |-> "observability", versionFrom |-> "", hasCondition |-> FALSE],
    [packages |-> <<"symfony/serializer">>, name |-> "symfony-serializer", category |-> "serialization", versionFrom |-> "", hasCondition |-> FALSE],
    [packages |-> <<"jms/serializer">>, name |-> "jms-serializer", category |-> "serialization", versionFrom |-> "", hasCondition |-> FALSE],
    [packages |-> <<"symfony/cache">>, name |-> "symfony-cache", category |-> "caching", versionFrom |-> "", hasCondition |-> FALSE],
    [packages |-> <<"laravel/cors", "fruitcake/laravel-cors">>, name |-> "laravel-cors", category |-> "middleware", versionFrom |-> "", hasCondition |-> FALSE],
    [packages |-> <<"nelmio/cors-bundle">>, name |-> "nelmio-cors", category |-> "middleware", versionFrom |-> "", hasCondition |-> FALSE],
    [packages |-> <<"livewire/livewire">>, name |-> "livewire", category |-> "ui-components", versionFrom |-> "", hasCondition |-> FALSE],
    [packages |-> <<"inertiajs/inertia-laravel">>, name |-> "inertia", category |-> "ui-components", versionFrom |-> "", hasCondition |-> FALSE],
    [packages |-> <<"symfony/console">>, name |-> "symfony-console", category |-> "cli", versionFrom |-> "", hasCondition |-> FALSE],
    [packages |-> <<"symfony/form">>, name |-> "symfony-form", category |-> "forms", versionFrom |-> "", hasCondition |-> FALSE],
    [packages |-> <<"symfony/workflow">>, name |-> "symfony-workflow", category |-> "state", versionFrom |-> "", hasCondition |-> FALSE],
    [packages |-> <<"symfony/event-dispatcher">>, name |-> "symfony-events", category |-> "middleware", versionFrom |-> "", hasCondition |-> FALSE],
    [packages |-> <<"symfony/notifier">>, name |-> "symfony-notifier", category |-> "email", versionFrom |-> "", hasCondition |-> FALSE],
    [packages |-> <<"symfony/scheduler">>, name |-> "symfony-scheduler", category |-> "jobs", versionFrom |-> "", hasCondition |-> FALSE],
    [packages |-> <<"spatie/laravel-permission">>, name |-> "laravel-permission", category |-> "auth", versionFrom |-> "", hasCondition |-> FALSE],
    [packages |-> <<"spatie/laravel-medialibrary">>, name |-> "laravel-medialibrary", category |-> "file-upload", versionFrom |-> "", hasCondition |-> FALSE],
    [packages |-> <<"spatie/laravel-activitylog">>, name |-> "laravel-activitylog", category |-> "logging", versionFrom |-> "", hasCondition |-> FALSE],
    [packages |-> <<"spatie/laravel-backup">>, name |-> "laravel-backup", category |-> "deployment", versionFrom |-> "", hasCondition |-> FALSE],
    [packages |-> <<"spatie/laravel-translatable">>, name |-> "laravel-translatable", category |-> "i18n", versionFrom |-> "", hasCondition |-> FALSE],
    [packages |-> <<"spatie/laravel-sluggable">>, name |-> "laravel-sluggable", category |-> "orm", versionFrom |-> "", hasCondition |-> FALSE],
    [packages |-> <<"spatie/laravel-settings">>, name |-> "laravel-settings", category |-> "config", versionFrom |-> "", hasCondition |-> FALSE],
    [packages |-> <<"symfony/translation">>, name |-> "symfony-translation", category |-> "i18n", versionFrom |-> "", hasCondition |-> FALSE],
    [packages |-> <<"league/flysystem">>, name |-> "flysystem", category |-> "file-upload", versionFrom |-> "", hasCondition |-> FALSE],
    [packages |-> <<"intervention/image">>, name |-> "intervention-image", category |-> "file-upload", versionFrom |-> "", hasCondition |-> FALSE],
    [packages |-> <<"beyondcode/laravel-websockets", "pusher/pusher-php-server">>, name |-> "laravel-websockets", category |-> "realtime", versionFrom |-> "", hasCondition |-> FALSE],
    [packages |-> <<"laravel/reverb">>, name |-> "reverb", category |-> "realtime", versionFrom |-> "", hasCondition |-> FALSE],
    [packages |-> <<"statamic/cms">>, name |-> "statamic", category |-> "cms", versionFrom |-> "", hasCondition |-> FALSE],
    [packages |-> <<"laravel/scout">>, name |-> "scout", category |-> "database", versionFrom |-> "", hasCondition |-> FALSE],
    [packages |-> <<"meilisearch/meilisearch-php">>, name |-> "meilisearch", category |-> "database", versionFrom |-> "", hasCondition |-> FALSE],
    [packages |-> <<"algolia/algoliasearch-client-php">>, name |-> "algolia", category |-> "database", versionFrom |-> "", hasCondition |-> FALSE],
    [packages |-> <<"elasticsearch/elasticsearch">>, name |-> "elasticsearch", category |-> "database", versionFrom |-> "", hasCondition |-> FALSE]
  >>

PhpNOISE_EXACT ==
  {
    "php", "ext-json", "ext-mbstring", "ext-openssl", "ext-pdo", "ext-xml", "ext-ctype",
    "ext-curl", "ext-dom", "ext-fileinfo", "ext-filter", "ext-hash", "ext-iconv",
    "ext-intl", "ext-tokenizer", "ext-xmlwriter", "ext-bcmath", "ext-gd", "ext-zip",
    "ext-sodium", "ext-simplexml", "ext-pdo_mysql", "ext-pdo_pgsql", "ext-pdo_sqlite",
    "composer/installers", "composer-plugin-api", "composer/semver", "psr/log",
    "psr/http-message", "psr/container", "psr/cache", "psr/event-dispatcher",
    "psr/simple-cache", "psr/http-client", "psr/http-factory", "psr/http-server-handler",
    "psr/http-server-middleware", "psr/clock", "psr/link", "symfony/polyfill-mbstring",
    "symfony/polyfill-ctype", "symfony/polyfill-intl-normalizer",
    "symfony/polyfill-intl-grapheme", "symfony/polyfill-php80", "symfony/polyfill-php81",
    "symfony/polyfill-php82", "symfony/polyfill-php83", "symfony/polyfill-php84",
    "symfony/polyfill-intl-icu", "symfony/polyfill-intl-idn", "symfony/polyfill-uuid",
    "symfony/deprecation-contracts", "symfony/service-contracts",
    "symfony/event-dispatcher-contracts", "symfony/http-kernel", "symfony/http-foundation",
    "symfony/routing", "symfony/dependency-injection", "symfony/config",
    "symfony/filesystem", "symfony/finder", "symfony/string", "symfony/var-dumper",
    "symfony/var-exporter", "symfony/property-access", "symfony/property-info",
    "symfony/options-resolver", "symfony/mime", "symfony/error-handler", "symfony/process",
    "symfony/yaml", "symfony/expression-language", "doctrine/annotations",
    "doctrine/cache", "doctrine/collections", "doctrine/common", "doctrine/event-manager",
    "doctrine/inflector", "doctrine/instantiator", "doctrine/lexer",
    "doctrine/persistence", "illuminate/support", "illuminate/contracts",
    "illuminate/collections", "illuminate/conditionable", "illuminate/macroable",
    "illuminate/pipeline", "illuminate/container", "illuminate/events", "illuminate/bus",
    "nesbot/carbon", "ramsey/uuid", "league/commonmark", "nikic/php-parser",
    "phpoption/phpoption", "graham-campbell/result-type", "webmozart/assert", "brick/math",
    "dragonmantank/cron-expression", "egulias/email-validator", "dflydev/dot-access-data",
    "nunomaduro/termwind", "nunomaduro/collision", "laravel/serializable-closure",
    "laravel/prompts", "laravel/tinker"
  }

PhpNOISE_PREFIXES ==
  {
    "ext-", "symfony/polyfill-"
  }

PhpFRAMEWORK_PACKAGES ==
  {
    "laravel/framework", "symfony/framework-bundle", "symfony/symfony", "slim/slim",
    "slim/psr7", "codeigniter4/framework", "cakephp/cakephp", "yiisoft/yii2"
  }
\* ---------------------------------------------------------------------------
\* Shared shapes of the classifiers
\* ---------------------------------------------------------------------------

\* Array.prototype.filter(p => p in all) over a rule's trigger list
PresentIn(list, all) == SelectSeq(list, LAMBDA p : In(p, all))

\* the elements of an array
Range(list) == {list[i] : i \in 1..Len(list)}

\* recognized[name] is set
HasEntry(recognized, name) == \E i \in 1..Len(recognized) : recognized[i].name = name

\* recognized[entry.name] = entry: a new key is appended, an existing key keeps
\* its position and takes the new value
Put(recognized, entry) ==
  IF HasEntry(recognized, entry.name)
  THEN [i \in 1..Len(recognized) |->
          IF recognized[i].name = entry.name THEN entry ELSE recognized[i]]
  ELSE Append(recognized, entry)

\* the rule loop starts from empty `recognized` and an empty claimed set
EmptyLoopState == [recognized |-> <<>>, matched |-> {}]

\* ---------------------------------------------------------------------------
\* JavaScript: version helper, framework detector, stack classifier
\* ---------------------------------------------------------------------------

JsVer(name, deps, devDeps) ==
  LET v == OrElse(Get(deps, name), Get(devDeps, name)) IN
  IF v = Null \/ v[1] = "" THEN Null
  ELSE LET match == MatchSemver3(v[1]) IN
       IF match # "" THEN Some(match) ELSE Some(Trim(StripOperators(v[1])))

JsHas(name, deps, devDeps) == In(name, deps) \/ In(name, devDeps)

JsHasAny(names, deps, devDeps) == \E i \in 1..Len(names) : JsHas(names[i], deps, devDeps)

JsFramework(name, versionPkg, deps, devDeps) ==
  Some([name |-> name, version |-> OrElse(JsVer(versionPkg, deps, devDeps), Some("unknown"))[1],
        variant |-> Null])

\* the variant of a Next.js project with the pages directory looked at first
NextVariantPagesFirst(structure) ==
  IF structure.hasPagesDir THEN "pages-router"
  ELSE IF structure.hasAppDir THEN "app-router"
  ELSE "unknown"

\* the variant of a Next.js project, from the structure facts
NextVariant(structure) ==
  IF structure.hasAppDir THEN "app-router"
  ELSE IF structure.hasPagesDir THEN "pages-router"
  ELSE "unknown"

\* detectFramework with the check for react moved to the head of the chain
JsDetectFrameworkReactFirst(deps, devDeps, structure) ==
  IF JsHas("react", deps, devDeps) THEN JsFramework("react", "react", deps, devDeps)
  ELSE IF JsHas("next", deps, devDeps)
  THEN Some([name |-> "next",
             version |-> OrElse(JsVer("next", deps, devDeps), Some("unknown"))[1],
             variant |-> Some(IF structure.hasAppDir THEN "app-router"
                              ELSE IF structure.hasPagesDir THEN "pages-router"
                              ELSE "unknown")])
  ELSE Null

JsDetectFramework(deps, devDeps, structure) ==
  IF JsHas("next", deps, devDeps)
  THEN Some([name |-> "next",
             version |-> OrElse(JsVer("next", deps, devDeps), Some("unknown"))[1],
             variant |-> Some(NextVariant(structure))])
  ELSE IF JsHas("nuxt", deps, devDeps) THEN JsFramework("nuxt", "nuxt", deps, devDeps)
  ELSE IF JsHasAny(<<"@remix-run/react", "@remix-run/node">>, deps, devDeps)
       THEN JsFramework("remix", "@remix-run/react", deps, devDeps)
  ELSE IF JsHas("astro", deps, devDeps) THEN JsFramework("astro", "astro", deps, devDeps)
  ELSE IF JsHas("@sveltejs/kit", deps, devDeps)
       THEN JsFramework("sveltekit", "@sveltejs/kit", deps, devDeps)
  ELSE IF JsHas("@solidjs/start", deps, devDeps)
       THEN JsFramework("solid-start", "@solidjs/start", deps, devDeps)
  ELSE IF JsHas("vite", deps, devDeps) /\ JsHas("react", deps, devDeps)
       THEN JsFramework("vite-react", "vite", deps, devDeps)
  ELSE IF JsHas("express", deps, devDeps) THEN JsFramework("express", "express", deps, devDeps)
  ELSE IF JsHas("fastify", deps, devDeps) THEN JsFramework("fastify", "fastify", deps, devDeps)
  ELSE IF JsHas("hono", deps, devDeps) THEN JsFramework("hono", "hono", deps, devDeps)
  ELSE IF JsHas("react", deps, devDeps) THEN JsFramework("react", "react", deps, devDeps)
  ELSE Null

\* the condition of the shadcn rule without its look at the structure facts
ShadcnConditionIgnoresStructure(all, structure) ==
  In("tailwindcss", all) /\ In("class-variance-authority", all)

\* the condition of the shadcn rule; structure.defined is FALSE when the
\* optional structure argument is omitted
ShadcnCondition(all, structure) ==
  /\ In("tailwindcss", all)
  /\ In("class-variance-authority", all)
  /\ \/ ~structure.defined
     \/ "components" \in structure.topLevelDirs
     \/ "components" \in structure.srcDirs

\* one iteration of the rule loop recording the entry under the name of the
\* first matching package instead of the rule's canonical name
JsRuleStepKeyedByPackage(rule, st, all, deps, devDeps, structure) ==
  IF HasEntry(st.recognized, rule.name) THEN st
  ELSE LET matchingPkgs == PresentIn(rule.packages, all) IN
       IF Len(matchingPkgs) = 0 THEN st
       ELSE IF \A p \in Range(matchingPkgs) : p \in st.matched THEN st
       ELSE IF rule.hasCondition /\ ~ShadcnCondition(all, structure) THEN st
       ELSE LET versionPkg == IF rule.versionFrom # "" THEN rule.versionFrom
                              ELSE rule.packages[1]
            IN [recognized |-> Put(st.recognized,
                                   [name |-> matchingPkgs[1],
                                    version |-> JsVer(versionPkg, deps, devDeps),
                                    category |-> rule.category]),
                matched |-> st.matched \cup {p \in Range(rule.packages) : In(p, all)}]

\* one iteration of the rule loop that looks for the rule's packages among the
\* first two keys of the merged map only
JsRuleStepFirstKeys(rule, st, all, deps, devDeps, structure) ==
  IF HasEntry(st.recognized, rule.name) THEN st
  ELSE LET matchingPkgs == PresentIn(rule.packages, SubSeq(all, 1, IF Len(all) < 2 THEN Len(all) ELSE 2)) IN
       IF Len(matchingPkgs) = 0 THEN st
       ELSE IF \A p \in Range(matchingPkgs) : p \in st.matched THEN st
       ELSE IF rule.hasCondition /\ ~ShadcnCondition(all, structure) THEN st
       ELSE LET versionPkg == IF rule.versionFrom # "" THEN rule.versionFrom
                              ELSE rule.packages[1]
            IN [recognized |-> Put(st.recognized,
                                   [name |-> rule.name,
                                    version |-> JsVer(versionPkg, deps, devDeps),
                                    category |-> rule.category]),
                matched |-> st.matched \cup {p \in Range(rule.packages) : In(p, all)}]

\* one iteration of the rule loop without the check that every present
\* trigger is already claimed
JsRuleStepNoClaimedCheck(rule, st, all, deps, devDeps, structure) ==
  IF HasEntry(st.recognized, rule.name) THEN st
  ELSE LET matchingPkgs == PresentIn(rule.packages, all) IN
       IF Len(matchingPkgs) = 0 THEN st
       ELSE IF rule.hasCondition /\ ~ShadcnCondition(all, structure) THEN st
       ELSE LET versionPkg == IF rule.versionFrom # "" THEN rule.versionFrom
                              ELSE rule.packages[1]
            IN [recognized |-> Put(st.recognized,
                                   [name |-> rule.name,
                                    version |-> JsVer(versionPkg, deps, devDeps),
                                    category |-> rule.category]),
                matched |-> st.matched \cup {p \in Range(rule.packages) : In(p, all)}]

\* one iteration of `for (const rule of RULES)`
JsRuleStep(rule, st, all, deps, devDeps, structure) ==
  IF HasEntry(st.recognized, rule.name) THEN st
  ELSE LET matchingPkgs == PresentIn(rule.packages, all) IN
       IF Len(matchingPkgs) = 0 THEN st
       ELSE IF \A p \in Range(matchingPkgs) : p \in st.matched THEN st
       ELSE IF rule.hasCondition /\ ~ShadcnCondition(all, structure) THEN st
       ELSE LET versionPkg == IF rule.versionFrom # "" THEN rule.versionFrom
                              ELSE rule.packages[1]
            IN [recognized |-> Put(st.recognized,
                                   [name |-> rule.name,
                                    version |-> JsVer(versionPkg, deps, devDeps),
                                    category |-> rule.category]),
                matched |-> st.matched \cup {p \in Range(rule.packages) : In(p, all)}]

\* the rule loop over RULES[lo..hi] entered in state st: the sequence of the
\* states after each of these iterations, in order
RECURSIVE JsRuleLoop(_, _, _, _, _, _, _)
JsRuleLoop(lo, hi, st, all, deps, devDeps, structure) ==
  IF lo > hi THEN <<>>
  ELSE IF lo = hi THEN <<JsRuleStep(JsRULES[lo], st, all, deps, devDeps, structure)>>
  ELSE LET mid == (lo + hi) \div 2
           first == JsRuleLoop(lo, mid, st, all, deps, devDeps, structure)
       IN first \o JsRuleLoop(mid + 1, hi, first[Len(first)], all, deps, devDeps, structure)

\* [1] is the state before the first rule, [i + 1] the state after rule i
JsLoopStates(deps, devDeps, structure) ==
  <<EmptyLoopState>>
  \o JsRuleLoop(1, Len(JsRULES), EmptyLoopState, Merge(deps, devDeps), deps, devDeps, structure)

JsIsNoise(pkg) ==
  \/ pkg \in JsNOISE_EXACT
  \/ \E prefix \in JsNOISE_PREFIXES : StartsWith(pkg, prefix)

\* the unrecognized filter without the test against matchedPackages
JsUnrecognizedKeepsMatched(all, matched) ==
  SelectSeq(Keys(all), LAMBDA pkg :
     /\ ~JsIsNoise(pkg)
     /\ pkg \notin JsFRAMEWORK_SKIP)

JsUnrecognized(all, matched) ==
  SelectSeq(Keys(all), LAMBDA pkg :
     /\ pkg \notin matched
     /\ ~JsIsNoise(pkg)
     /\ pkg \notin JsFRAMEWORK_SKIP)

\* the returned { recognized, unrecognized }, with the final value of the local
\* matchedPackages kept beside it
JsDetectStack(deps, devDeps, structure) ==
  LET all == Merge(deps, devDeps)
      tr == JsLoopStates(deps, devDeps, structure)
      matchedPackages == tr[Len(tr)].matched
  IN [recognized |-> tr[Len(tr)].recognized,
      unrecognized |-> JsUnrecognized(all, matchedPackages),
      matched |-> matchedPackages]

\* ---------------------------------------------------------------------------
\* Python: version helper, framework detector, stack classifier
\* ---------------------------------------------------------------------------

PyHas(name, deps, devDeps) == In(name, deps) \/ In(name, devDeps)

PyVer(name, deps, devDeps) ==
  LET v == OrElse(Get(deps, name), Get(devDeps, name)) IN
  IF v = Null \/ v[1] = "" \/ v[1] = "*" THEN Null
  ELSE LET match == MatchSemver2(v[1]) IN
       IF match # "" THEN Some(match) ELSE v

PyFrameworks ==
  <<[pkg |-> "django", name |-> "django"], [pkg |-> "flask", name |-> "flask"],
    [pkg |-> "fastapi", name |-> "fastapi"], [pkg |-> "starlette", name |-> "starlette"],
    [pkg |-> "litestar", name |-> "litestar"], [pkg |-> "sanic", name |-> "sanic"],
    [pkg |-> "tornado", name |-> "tornado"], [pkg |-> "pyramid", name |-> "pyramid"],
    [pkg |-> "bottle", name |-> "bottle"], [pkg |-> "aiohttp", name |-> "aiohttp"]>>

\* `for (const fw of frameworks)` from entry i on: the first entry present wins
RECURSIVE PyFrameworkFrom(_, _, _)
PyFrameworkFrom(i, deps, devDeps) ==
  IF i > Len(PyFrameworks) THEN Null
  ELSE IF PyHas(PyFrameworks[i].pkg, deps, devDeps)
  THEN Some([name |-> PyFrameworks[i].name,
             version |-> OrElse(PyVer(PyFrameworks[i].pkg, deps, devDeps), Some("unknown"))[1],
             variant |-> Null])
  ELSE PyFrameworkFrom(i + 1, deps, devDeps)

PyDetectFramework(deps, devDeps, structure) == PyFrameworkFrom(1, deps, devDeps)

\* one iteration of `for (const rule of RULES)`
PyRuleStep(rule, st, all, deps, devDeps) ==
  IF HasEntry(st.recognized, rule.name) THEN st
  ELSE LET matchingPkgs == PresentIn(rule.packages, all) IN
       IF Len(matchingPkgs) = 0 THEN st
       ELSE IF \A p \in Range(matchingPkgs) : p \in st.matched THEN st
       ELSE LET versionPkg == IF rule.versionFrom # "" THEN rule.versionFrom
                              ELSE rule.packages[1]
            IN [recognized |-> Put(st.recognized,
                                   [name |-> rule.name,
                                    version |-> PyVer(versionPkg, deps, devDeps),
                                    category |-> rule.category]),
                matched |-> st.matched \cup {p \in Range(rule.packages) : In(p, all)}]

RECURSIVE PyRuleLoop(_, _, _, _, _, _)
PyRuleLoop(lo, hi, st, all, deps, devDeps) ==
  IF lo > hi THEN <<>>
  ELSE IF lo = hi THEN <<PyRuleStep(PyRULES[lo], st, all, deps, devDeps)>>
  ELSE LET mid == (lo + hi) \div 2
           first == PyRuleLoop(lo, mid, st, all, deps, devDeps)
       IN first \o PyRuleLoop(mid + 1, hi, first[Len(first)], all, deps, devDeps)

PyLoopStates(deps, devDeps) ==
  <<EmptyLoopState>>
  \o PyRuleLoop(1, Len(PyRULES), EmptyLoopState, Merge(deps, devDeps), deps, devDeps)

PyIsNoise(pkg) ==
  \/ pkg \in PyNOISE_EXACT
  \/ \E prefix \in PyNOISE_PREFIXES : StartsWith(pkg, prefix)

PyUnrecognized(all, matched) ==
  SelectSeq(Keys(all), LAMBDA pkg :
     /\ pkg \notin matched
     /\ ~PyIsNoise(pkg)
     /\ pkg \notin PyFRAMEWORK_PACKAGES)

PyDetectStack(deps, devDeps, structure) ==
  LET all == Merge(deps, devDeps)
      tr == PyLoopStates(deps, devDeps)
      matchedPackages == tr[Len(tr)].matched
  IN [recognized |-> tr[Len(tr)].recognized,
      unrecognized |-> PyUnrecognized(all, matchedPackages),
      matched |-> matchedPackages]

\* ---------------------------------------------------------------------------
\* Rust: version helper, framework detector, stack classifier
\* ---------------------------------------------------------------------------

RustHas(name, deps, devDeps) == In(name, deps) \/ In(name, devDeps)

RustVer(name, deps, devDeps) ==
  LET v == OrElse(Get(deps, name), Get(devDeps, name)) IN
  IF v = Null \/ v[1] = "" \/ v[1] = "*" THEN Null
  ELSE LET match == MatchSemver2(v[1]) IN
       IF match # "" THEN Some(match) ELSE v

RustFrameworks ==
  <<[pkg |-> "actix-web", name |-> "actix-web"], [pkg |-> "axum", name |-> "axum"],
    [pkg |-> "rocket", name |-> "rocket"], [pkg |-> "warp", name |-> "warp"],
    [pkg |-> "tide", name |-> "tide"], [pkg |-> "poem", name |-> "poem"],
    [pkg |-> "hyper", name |-> "hyper"]>>

\* `for (const fw of frameworks)` from entry i on: the first entry present wins
RECURSIVE RustFrameworkFrom(_, _, _)
RustFrameworkFrom(i, deps, devDeps) ==
  IF i > Len(RustFrameworks) THEN Null
  ELSE IF RustHas(RustFrameworks[i].pkg, deps, devDeps)
  THEN Some([name |-> RustFrameworks[i].name,
             version |-> OrElse(RustVer(RustFrameworks[i].pkg, deps, devDeps), Some("unknown"))[1],
             variant |-> Null])
  ELSE RustFrameworkFrom(i + 1, deps, devDeps)

RustDetectFramework(deps, devDeps, structure) == RustFrameworkFrom(1, deps, devDeps)

\* one iteration of `for (const rule of RULES)`
RustRuleStep(rule, st, all, deps, devDeps) ==
  IF HasEntry(st.recognized, rule.name) THEN st
  ELSE LET matchingPkgs == PresentIn(rule.packages, all) IN
       IF Len(matchingPkgs) = 0 THEN st
       ELSE IF \A p \in Range(matchingPkgs) : p \in st.matched THEN st
       ELSE LET versionPkg == IF rule.versionFrom # "" THEN rule.versionFrom
                              ELSE rule.packages[1]
            IN [recognized |-> Put(st.recognized,
                                   [name |-> rule.name,
                                    version |-> RustVer(versionPkg, deps, devDeps),
                                    category |-> rule.category]),
                matched |-> st.matched \cup {p \in Range(rule.packages) : In(p, all)}]

RECURSIVE RustRuleLoop(_, _, _, _, _, _)
RustRuleLoop(lo, hi, st, all, deps, devDeps) ==
  IF lo > hi THEN <<>>
  ELSE IF lo = hi THEN <<RustRuleStep(RustRULES[lo], st, all, deps, devDeps)>>
  ELSE LET mid == (lo + hi) \div 2
           first == RustRuleLoop(lo, mid, st, all, deps, devDeps)
       IN first \o RustRuleLoop(mid + 1, hi, first[Len(first)], all, deps, devDeps)

RustLoopStates(deps, devDeps) ==
  <<EmptyLoopState>>
  \o RustRuleLoop(1, Len(RustRULES), EmptyLoopState, Merge(deps, devDeps), deps, devDeps)

RustIsNoise(pkg) ==
  \/ pkg \in RustNOISE_EXACT
  \/ \E prefix \in RustNOISE_PREFIXES : StartsWith(pkg, prefix)

RustUnrecognized(all, matched) ==
  SelectSeq(Keys(all), LAMBDA pkg :
     /\ pkg \notin matched
     /\ ~RustIsNoise(pkg)
     /\ pkg \notin RustFRAMEWORK_PACKAGES)

RustDetectStack(deps, devDeps, structure) ==
  LET all == Merge(deps, devDeps)
      tr == RustLoopStates(deps, devDeps)
      matchedPackages == tr[Len(tr)].matched
  IN [recognized |-> tr[Len(tr)].recognized,
      unrecognized |-> RustUnrecognized(all, matchedPackages),
      matched |-> matchedPackages]

\* ---------------------------------------------------------------------------
\* Go: module-path matching, framework detector, stack classifier
\* ---------------------------------------------------------------------------

\* k.startsWith(mod): a match on the bare string prefix
GoKeyMatchesBarePrefix(k, mod) == StartsWith(k, mod)

\* k === mod || k.startsWith(mod + "/")
GoKeyMatches(k, mod) == k = mod \/ StartsWith(k, mod \o "/")

GoHasMod(mod, deps, devDeps) ==
  \/ \E k \in KeySet(deps) : GoKeyMatches(k, mod)
  \/ \E k \in KeySet(devDeps) : GoKeyMatches(k, mod)

\* the version of the first entry of { ...deps, ...devDeps }, in key order,
\* whose key matches mod
GoVerMod(mod, deps, devDeps) ==
  LET all == Merge(deps, devDeps)
      hits == {i \in 1..Len(all) : GoKeyMatches(all[i].k, mod)}
  IN IF hits = {} THEN Null
     ELSE LET v == all[CHOOSE i \in hits : \A j \in hits : i <= j].v IN
          IF v = "" \/ v = "*" THEN Null
          ELSE LET match == MatchSemver2(v) IN
               IF match # "" THEN Some(match) ELSE Some(v)

GoFrameworks ==
  <<[mod |-> "github.com/gin-gonic/gin", name |-> "gin"],
    [mod |-> "github.com/labstack/echo", name |-> "echo"],
    [mod |-> "github.com/gofiber/fiber", name |-> "fiber"],
    [mod |-> "github.com/go-chi/chi", name |-> "chi"],
    [mod |-> "github.com/gorilla/mux", name |-> "gorilla-mux"],
    [mod |-> "github.com/julienschmidt/httprouter", name |-> "httprouter"]>>

RECURSIVE GoFrameworkFrom(_, _, _)
GoFrameworkFrom(i, deps, devDeps) ==
  IF i > Len(GoFrameworks) THEN Null
  ELSE IF GoHasMod(GoFrameworks[i].mod, deps, devDeps)
  THEN Some([name |-> GoFrameworks[i].name,
             version |-> OrElse(GoVerMod(GoFrameworks[i].mod, deps, devDeps), Some("unknown"))[1],
             variant |-> Null])
  ELSE GoFrameworkFrom(i + 1, deps, devDeps)

GoDetectFramework(deps, devDeps, structure) == GoFrameworkFrom(1, deps, devDeps)

\* one iteration of `for (const rule of RULES)`
GoRuleStep(rule, st, all, deps, devDeps) ==
  IF HasEntry(st.recognized, rule.name) THEN st
  ELSE LET matchingMods == SelectSeq(rule.modules,
                             LAMBDA m : \E k \in KeySet(all) : GoKeyMatches(k, m)) IN
       IF Len(matchingMods) = 0 THEN st
       ELSE [recognized |-> Put(st.recognized,
                                [name |-> rule.name,
                                 version |-> GoVerMod(rule.modules[1], deps, devDeps),
                                 category |-> rule.category]),
             matched |-> st.matched \cup
                {k \in KeySet(all) : \E mod \in Range(rule.modules) : GoKeyMatches(k, mod)}]

RECURSIVE GoRuleLoop(_, _, _, _, _, _)
GoRuleLoop(lo, hi, st, all, deps, devDeps) ==
  IF lo > hi THEN <<>>
  ELSE IF lo = hi THEN <<GoRuleStep(GoRULES[lo], st, all, deps, devDeps)>>
  ELSE LET mid == (lo + hi) \div 2
           first == GoRuleLoop(lo, mid, st, all, deps, devDeps)
       IN first \o GoRuleLoop(mid + 1, hi, first[Len(first)], all, deps, devDeps)

GoLoopStates(deps, devDeps) ==
  <<EmptyLoopState>>
  \o GoRuleLoop(1, Len(GoRULES), EmptyLoopState, Merge(deps, devDeps), deps, devDeps)

\* "Mark framework modules"
GoFrameworkKeys(all) ==
  {k \in KeySet(all) : \E fwMod \in GoFRAMEWORK_MODULES : GoKeyMatches(k, fwMod)}

GoIsNoise(pkg) ==
  \E prefix \in GoNOISE_PREFIXES : pkg = prefix \/ StartsWith(pkg, prefix \o "/")

GoUnrecognized(all, matched) ==
  SelectSeq(Keys(all), LAMBDA pkg : pkg \notin matched /\ ~GoIsNoise(pkg))

GoDetectStack(deps, devDeps, structure) ==
  LET all == Merge(deps, devDeps)
      tr == GoLoopStates(deps, devDeps)
      matchedModules == tr[Len(tr)].matched \cup GoFrameworkKeys(all)
  IN [recognized |-> tr[Len(tr)].recognized,
      unrecognized |-> GoUnrecognized(all, matchedModules),
      matched |-> matchedModules]

\* ---------------------------------------------------------------------------
\* Java: coordinate matching, framework detector, stack classifier
\* ---------------------------------------------------------------------------

\* k === ga || k.startsWith(ga + ":")
JavaKeyMatches(k, ga) == k = ga \/ StartsWith(k, ga \o ":")

JavaHas(ga, deps, devDeps) ==
  \/ \E k \in KeySet(deps) : JavaKeyMatches(k, ga)
  \/ \E k \in KeySet(devDeps) : JavaKeyMatches(k, ga)

JavaVer(ga, deps, devDeps) ==
  LET all == Merge(deps, devDeps)
      hits == {i \in 1..Len(all) : JavaKeyMatches(all[i].k, ga)}
  IN IF hits = {} THEN Null
     ELSE LET v == all[CHOOSE i \in hits : \A j \in hits : i <= j].v IN
          IF v = "" \/ v = "*" \/ StartsWith(v, "$") THEN Null
          ELSE LET match == MatchSemver2(v) IN
               IF match # "" THEN Some(match) ELSE Some(v)

JavaFrameworks ==
  <<[packages |-> <<"org.springframework.boot:spring-boot-starter-web",
                    "org.springframework.boot:spring-boot-starter-webflux">>,
     name |-> "spring-boot"],
    [packages |-> <<"io.quarkus:quarkus-core", "io.quarkus:quarkus-resteasy">>,
     name |-> "quarkus"],
    [packages |-> <<"io.micronaut:micronaut-core", "io.micronaut:micronaut-http-server">>,
     name |-> "micronaut"],
    [packages |-> <<"io.vertx:vertx-core", "io.vertx:vertx-web">>, name |-> "vert.x"],
    [packages |-> <<"io.javalin:javalin">>, name |-> "javalin"]>>

\* the nested loops `for (const fw of frameworks) for (const pkg of fw.packages)`
\* from package j of entry i on
RECURSIVE JavaFrameworkFrom(_, _, _, _)
JavaFrameworkFrom(i, j, deps, devDeps) ==
  IF i > Len(JavaFrameworks) THEN Null
  ELSE IF j > Len(JavaFrameworks[i].packages) THEN JavaFrameworkFrom(i + 1, 1, deps, devDeps)
  ELSE IF JavaHas(JavaFrameworks[i].packages[j], deps, devDeps)
  THEN Some([name |-> JavaFrameworks[i].name,
             version |-> OrElse(JavaVer(JavaFrameworks[i].packages[j], deps, devDeps),
                                Some("unknown"))[1],
             variant |-> Null])
  ELSE JavaFrameworkFrom(i, j + 1, deps, devDeps)

JavaDetectFramework(deps, devDeps, structure) == JavaFrameworkFrom(1, 1, deps, devDeps)

\* one iteration of `for (const rule of RULES)`
JavaRuleStep(rule, st, all, deps, devDeps) ==
  IF HasEntry(st.recognized, rule.name) THEN st
  ELSE LET matchingPkgs == SelectSeq(rule.packages, LAMBDA p : \E k \in KeySet(all) : k = p) IN
       IF Len(matchingPkgs) = 0 THEN st
       ELSE [recognized |-> Put(st.recognized,
                                [name |-> rule.name,
                                 version |-> JavaVer(rule.packages[1], deps, devDeps),
                                 category |-> rule.category]),
             matched |-> st.matched \cup Range(matchingPkgs)]

RECURSIVE JavaRuleLoop(_, _, _, _, _, _)
JavaRuleLoop(lo, hi, st, all, deps, devDeps) ==
  IF lo > hi THEN <<>>
  ELSE IF lo = hi THEN <<JavaRuleStep(JavaRULES[lo], st, all, deps, devDeps)>>
  ELSE LET mid == (lo + hi) \div 2
           first == JavaRuleLoop(lo, mid, st, all, deps, devDeps)
       IN first \o JavaRuleLoop(mid + 1, hi, first[Len(first)], all, deps, devDeps)

JavaLoopStates(deps, devDeps) ==
  <<EmptyLoopState>>
  \o JavaRuleLoop(1, Len(JavaRULES), EmptyLoopState, Merge(deps, devDeps), deps, devDeps)

\* "Mark framework packages"
JavaFrameworkKeys(all) == {fwPkg \in JavaFRAMEWORK_PACKAGES : \E k \in KeySet(all) : k = fwPkg}

JavaIsNoise(pkg) ==
  \E prefix \in JavaNOISE_PREFIXES : pkg = prefix \/ StartsWith(pkg, prefix \o ":")

JavaUnrecognized(all, matched) ==
  SelectSeq(Keys(all), LAMBDA pkg : pkg \notin matched /\ ~JavaIsNoise(pkg))

JavaDetectStack(deps, devDeps, structure) ==
  LET all == Merge(deps, devDeps)
      tr == JavaLoopStates(deps, devDeps)
      matchedPackages == tr[Len(tr)].matched \cup JavaFrameworkKeys(all)
  IN [recognized |-> tr[Len(tr)].recognized,
      unrecognized |-> JavaUnrecognized(all, matchedPackages),
      matched |-> matchedPackages]

\* ---------------------------------------------------------------------------
\* PHP: version helper, framework detector, stack classifier
\* ---------------------------------------------------------------------------

PhpHas(name, deps, devDeps) == In(name, deps) \/ In(name, devDeps)

PhpVer(name, deps, devDeps) ==
  LET v == OrElse(Get(deps, name), Get(devDeps, name)) IN
  IF v = Null \/ v[1] = "" \/ v[1] = "*" THEN Null
  ELSE LET match == MatchSemver2(v[1]) IN
       IF match # "" THEN Some(match)
       ELSE LET stripped == Trim(StripOperators(v[1])) IN
            IF stripped = "" THEN Null ELSE Some(stripped)

PhpOtherFrameworks ==
  <<[pkg |-> "slim/slim", name |-> "slim"],
    [pkg |-> "codeigniter4/framework", name |-> "codeigniter"],
    [pkg |-> "cakephp/cakephp", name |-> "cakephp"],
    [pkg |-> "yiisoft/yii2", name |-> "yii2"]>>

RECURSIVE PhpOtherFrom(_, _, _)
PhpOtherFrom(i, deps, devDeps) ==
  IF i > Len(PhpOtherFrameworks) THEN Null
  ELSE IF PhpHas(PhpOtherFrameworks[i].pkg, deps, devDeps)
  THEN Some([name |-> PhpOtherFrameworks[i].name,
             version |-> OrElse(PhpVer(PhpOtherFrameworks[i].pkg, deps, devDeps),
                                Some("unknown"))[1],
             variant |-> Null])
  ELSE PhpOtherFrom(i + 1, deps, devDeps)

PhpDetectFramework(deps, devDeps, structure) ==
  IF PhpHas("laravel/framework", deps, devDeps)
  THEN Some([name |-> "laravel",
             version |-> OrElse(PhpVer("laravel/framework", deps, devDeps), Some("unknown"))[1],
             variant |-> IF PhpHas("inertiajs/inertia-laravel", deps, devDeps) THEN Some("inertia")
                         ELSE IF PhpHas("livewire/livewire", deps, devDeps) THEN Some("livewire")
                         ELSE Null])
  ELSE IF PhpHas("symfony/framework-bundle", deps, devDeps) \/ PhpHas("symfony/symfony", deps, devDeps)
  THEN Some([name |-> "symfony",
             version |-> OrElse(PhpVer("symfony/framework-bundle", deps, devDeps),
                                OrElse(PhpVer("symfony/symfony", deps, devDeps), Some("unknown")))[1],
             variant |-> IF PhpHas("api-platform/core", deps, devDeps) THEN Some("api-platform")
                         ELSE IF PhpHas("twig/twig", deps, devDeps) THEN Some("full-stack")
                         ELSE Some("api")])
  ELSE PhpOtherFrom(1, deps, devDeps)

\* one iteration of `for (const rule of RULES)`
PhpRuleStep(rule, st, all, deps, devDeps) ==
  IF HasEntry(st.recognized, rule.name) THEN st
  ELSE LET matchingPkgs == PresentIn(rule.packages, all) IN
       IF Len(matchingPkgs) = 0 THEN st
       ELSE LET versionPkg == IF rule.versionFrom # "" THEN rule.versionFrom
                              ELSE matchingPkgs[1]
            IN [recognized |-> Put(st.recognized,
                                   [name |-> rule.name,
                                    version |-> PhpVer(versionPkg, deps, devDeps),
                                    category |-> rule.category]),
                matched |-> st.matched \cup {p \in Range(rule.packages) : In(p, all)}]

RECURSIVE PhpRuleLoop(_, _, _, _, _, _)
PhpRuleLoop(lo, hi, st, all, deps, devDeps) ==
  IF lo > hi THEN <<>>
  ELSE IF lo = hi THEN <<PhpRuleStep(PhpRULES[lo], st, all, deps, devDeps)>>
  ELSE LET mid == (lo + hi) \div 2
           first == PhpRuleLoop(lo, mid, st, all, deps, devDeps)
       IN first \o PhpRuleLoop(mid + 1, hi, first[Len(first)], all, deps, devDeps)

PhpLoopStates(deps, devDeps) ==
  <<EmptyLoopState>>
  \o PhpRuleLoop(1, Len(PhpRULES), EmptyLoopState, Merge(deps, devDeps), deps, devDeps)

\* "Mark framework packages"
PhpFrameworkKeys(all) == {fwPkg \in PhpFRAMEWORK_PACKAGES : In(fwPkg, all)}

PhpIsNoise(pkg) ==
  \/ pkg \in PhpNOISE_EXACT
  \/ \E prefix \in PhpNOISE_PREFIXES : StartsWith(pkg, prefix)

PhpUnrecognized(all, matched) ==
  SelectSeq(Keys(all), LAMBDA pkg : pkg \notin matched /\ ~PhpIsNoise(pkg))

PhpDetectStack(deps, devDeps, structure) ==
  LET all == Merge(deps, devDeps)
      tr == PhpLoopStates(deps, devDeps)
      matchedPackages == tr[Len(tr)].matched \cup PhpFrameworkKeys(all)
  IN [recognized |-> tr[Len(tr)].recognized,
      unrecognized |-> PhpUnrecognized(all, matchedPackages),
      matched |-> matchedPackages]

\* ---------------------------------------------------------------------------
\* Ecosystem detection and adapter resolution
\* ---------------------------------------------------------------------------

\* the projectPath argument of every run
ProjectPath == "/project"

\* path.join(projectPath, file)
Join(dir, file) == dir \o "/" \o file

MANIFEST_CHECKS ==
  <<[files |-> <<"package.json">>, ecosystem |-> "javascript", confidence |-> "high", glob |-> FALSE],
    [files |-> <<"pyproject.toml">>, ecosystem |-> "python", confidence |-> "high", glob |-> FALSE],
    [files |-> <<"requirements.txt", "setup.py", "Pipfile">>, ecosystem |-> "python", confidence |-> "medium", glob |-> FALSE],
    [files |-> <<"Cargo.toml">>, ecosystem |-> "rust", confidence |-> "high", glob |-> FALSE],
    [files |-> <<"go.mod">>, ecosystem |-> "go", confidence |-> "high", glob |-> FALSE],
    [files |-> <<"pom.xml", "build.gradle", "build.gradle.kts">>, ecosystem |-> "java", confidence |-> "high", glob |-> FALSE],
    [files |-> <<"composer.json">>, ecosystem |-> "php", confidence |-> "high", glob |-> FALSE],
    [files |-> <<"Gemfile">>, ecosystem |-> "ruby", confidence |-> "high", glob |-> FALSE],
    [files |-> <<"*.gemspec">>, ecosystem |-> "ruby", confidence |-> "medium", glob |-> TRUE]>>

\* the index of the first "*" of a string, 0 when it has none
RECURSIVE StarFrom(_, _)
StarFrom(s, i) ==
  IF i > Len(s) THEN 0 ELSE IF CharAt(s, i) = "*" THEN i ELSE StarFrom(s, i + 1)

\* new RegExp(`^${file.replace(".", "\\.").replace("*", ".*")}$`).test(e) for a
\* pattern with one "*" and at most one ".": the text before the star, anything,
\* the text after the star
GlobTest(file, e) ==
  LET star == StarFrom(file, 1)
      before == SubSeq(file, 1, star - 1)
      after == SubSeq(file, star + 1, Len(file))
  IN /\ Len(e) >= Len(before) + Len(after)
     /\ StartsWith(e, before)
     /\ EndsWith(e, after)

\* readdir(projectPath): the entries of the root, in directory order
Readdir(dirOrder, files) == SelectSeq(dirOrder, LAMBDA e : e \in files)

\* matches.join(", ")
RECURSIVE JoinNames(_)
JoinNames(names) ==
  IF Len(names) = 0 THEN ""
  ELSE IF Len(names) = 1 THEN names[1]
  ELSE names[1] \o ", " \o JoinNames(Tail(names))

Detection(check, matches) ==
  [ecosystem |-> check.ecosystem,
   confidence |-> check.confidence,
   manifestFiles |-> [n \in 1..Len(matches) |->
                        [path |-> matches[n], type |-> matches[n], ecosystem |-> check.ecosystem]],
   reason |-> "Found " \o JoinNames(matches)]

\* the body of `for (const file of check.files)` reporting every glob lookup
\* as a match, also one that found no entry
CheckFileEmptyGlob(check, file, entries) ==
  IF check.glob /\ Includes(file, "*")
  THEN Some(Detection(check, SelectSeq(entries, LAMBDA e : GlobTest(file, e))))
  ELSE IF file \in Range(entries) THEN Some(Detection(check, <<file>>))
  ELSE Null

\* the body of `for (const file of check.files)`: the detection it returns, or
\* Null when the loop goes on to the next file
CheckFile(check, file, entries) ==
  IF check.glob /\ Includes(file, "*")
  THEN LET matches == SelectSeq(entries, LAMBDA e : GlobTest(file, e)) IN
       IF Len(matches) > 0 THEN Some(Detection(check, matches)) ELSE Null
  ELSE IF file \in Range(entries) THEN Some(Detection(check, <<file>>))
  ELSE Null

NoEcosystemMessage(projectPath) ==
  "Could not detect project ecosystem in " \o projectPath \o ". "
  \o "No recognized manifest files found (package.json, Cargo.toml, pyproject.toml, go.mod, pom.xml, composer.json, Gemfile)."

\* the two loops scanned to their end, a later match replacing an earlier one
RECURSIVE DetectFromLastMatch(_, _, _, _)
DetectFromLastMatch(i, j, entries, found) ==
  IF i > Len(MANIFEST_CHECKS)
  THEN IF found = Null THEN [ok |-> FALSE, message |-> NoEcosystemMessage(ProjectPath)]
       ELSE [ok |-> TRUE, value |-> found[1]]
  ELSE IF j > Len(MANIFEST_CHECKS[i].files) THEN DetectFromLastMatch(i + 1, 1, entries, found)
  ELSE LET hit == CheckFile(MANIFEST_CHECKS[i], MANIFEST_CHECKS[i].files[j], entries) IN
       DetectFromLastMatch(i, j + 1, entries, IF hit # Null THEN hit ELSE found)

DetectEcosystemLastMatch(entries) == DetectFromLastMatch(1, 1, entries, Null)

\* the two loops of detectEcosystem from file j of tuple i on
RECURSIVE DetectFrom(_, _, _)
DetectFrom(i, j, entries) ==
  IF i > Len(MANIFEST_CHECKS)
  THEN [ok |-> FALSE, message |-> NoEcosystemMessage(ProjectPath)]
  ELSE IF j > Len(MANIFEST_CHECKS[i].files) THEN DetectFrom(i + 1, 1, entries)
  ELSE LET hit == CheckFile(MANIFEST_CHECKS[i], MANIFEST_CHECKS[i].files[j], entries) IN
       IF hit # Null THEN [ok |-> TRUE, value |-> hit[1]]
       ELSE DetectFrom(i, j + 1, entries)

\* detectEcosystem(projectPath) on a root with these entries: a returned
\* detection (ok) or the thrown error
DetectEcosystem(entries) == DetectFrom(1, 1, entries)

\* the `ecosystem` field of each adapter class
JavaScriptAdapter == [ecosystem |-> "javascript"]

PythonAdapter == [ecosystem |-> "python"]

RustAdapter == [ecosystem |-> "rust"]

GoAdapter == [ecosystem |-> "go"]

JavaAdapter == [ecosystem |-> "java"]

PhpAdapter == [ecosystem |-> "php"]

UnsupportedMessage(ecosystem) ==
  "Ecosystem \"" \o ecosystem
  \o "\" is not yet supported. Currently supported: javascript, python, rust, go, java, php"

\* getEcosystemAdapter with the JavaScript adapter as its default case
GetEcosystemAdapterDefaultJs(eco) ==
  CASE eco = "python" -> [ok |-> TRUE, value |-> PythonAdapter]
    [] eco = "rust" -> [ok |-> TRUE, value |-> RustAdapter]
    [] eco = "go" -> [ok |-> TRUE, value |-> GoAdapter]
    [] eco = "java" -> [ok |-> TRUE, value |-> JavaAdapter]
    [] eco = "php" -> [ok |-> TRUE, value |-> PhpAdapter]
    [] OTHER -> [ok |-> TRUE, value |-> JavaScriptAdapter]

\* getEcosystemAdapter(ecosystem): the adapter returned (ok) or the thrown error
GetEcosystemAdapter(eco) ==
  CASE eco = "javascript" -> [ok |-> TRUE, value |-> JavaScriptAdapter]
    [] eco = "python" -> [ok |-> TRUE, value |-> PythonAdapter]
    [] eco = "rust" -> [ok |-> TRUE, value |-> RustAdapter]
    [] eco = "go" -> [ok |-> TRUE, value |-> GoAdapter]
    [] eco = "java" -> [ok |-> TRUE, value |-> JavaAdapter]
    [] eco = "php" -> [ok |-> TRUE, value |-> PhpAdapter]
    [] OTHER -> [ok |-> FALSE, message |-> UnsupportedMessage(eco)]

\* the text the validate-claude-md tool returns when adapter resolution throws
UnsupportedToolText(eco) ==
  "Detected ecosystem: " \o eco
  \o ". Currently supported: JavaScript, Python, Rust, Go, Java, PHP."
\* ---------------------------------------------------------------------------
\* Manifest contents and the parsers' shared helpers
\* ---------------------------------------------------------------------------

\* d[name] = version: an existing key keeps its position and takes the value,
\* a new key is appended
SetKey(d, name, version) ==
  IF In(name, d)
  THEN [i \in 1..Len(d) |-> IF d[i].k = name THEN [k |-> name, v |-> version] ELSE d[i]]
  ELSE Append(d, [k |-> name, v |-> version])

\* a document read by JSON.parse / parseTOML: doc[name], Null when absent
Table(doc, name) ==
  LET hits == {i \in 1..Len(doc.tables) : doc.tables[i].name = name} IN
  IF hits = {} THEN Null ELSE Some(doc.tables[CHOOSE i \in hits : TRUE].entries)

\* the result every parseDependencies returns, cut to the two dependency maps
Parsed(dependencies, devDependencies) ==
  [ok |-> TRUE, value |-> [dependencies |-> dependencies, devDependencies |-> devDependencies]]

Thrown(message) == [ok |-> FALSE, message |-> message]

\* what readFile throws for a path that does not exist
ENOENT(path) == "ENOENT: no such file or directory, open '" \o path \o "'"

UpperCase == "ABCDEFGHIJKLMNOPQRSTUVWXYZ"

LowerCase == "abcdefghijklmnopqrstuvwxyz"

\* String.prototype.toLowerCase on ASCII
RECURSIVE ToLowerCase(_)
ToLowerCase(s) ==
  IF s = "" THEN ""
  ELSE LET c == CharAt(s, 1)
           hits == {i \in 1..Len(UpperCase) : CharAt(UpperCase, i) = c}
       IN (IF hits = {} THEN c ELSE CharAt(LowerCase, CHOOSE i \in hits : TRUE))
          \o ToLowerCase(SubSeq(s, 2, Len(s)))

\* the character class [a-zA-Z0-9_-]
IsNameChar(c) ==
  \/ c \in Digits
  \/ c \in {"_", "-"}
  \/ \E i \in 1..Len(LowerCase) : c = CharAt(LowerCase, i) \/ c = CharAt(UpperCase, i)

\* index of the last character of the maximal run of name characters from i
RECURSIVE NameRunEnd(_, _)
NameRunEnd(s, i) == IF IsNameChar(CharAt(s, i)) THEN NameRunEnd(s, i + 1) ELSE i - 1

\* index of the first c at or after i, 0 when there is none
RECURSIVE IndexFrom(_, _, _)
IndexFrom(s, c, i) ==
  IF i > Len(s) THEN 0 ELSE IF CharAt(s, i) = c THEN i ELSE IndexFrom(s, c, i + 1)

\* parsePep508(dep): /^([a-zA-Z0-9_-]+)(?:\[.*?\])?\s*(.*)$/ on the trimmed
\* string, the name lower-cased, the version the first number of the rest
Pep508Version(versionSpec, verMatch) ==
  IF verMatch # "" THEN verMatch ELSE IF versionSpec # "" THEN versionSpec ELSE "*"

Pep508Matched(name, versionSpec) ==
  [k |-> ToLowerCase(name), v |-> Pep508Version(versionSpec, MatchSemver2(versionSpec))]

Pep508AfterName(trimmed, nameEnd, close) ==
  Pep508Matched(SubSeq(trimmed, 1, nameEnd),
                Trim(SubSeq(trimmed, IF close > 0 THEN close + 1 ELSE nameEnd + 1,
                            Len(trimmed))))

Pep508Name(trimmed, nameEnd) ==
  IF nameEnd < 1 THEN [k |-> trimmed, v |-> "*"]
  ELSE Pep508AfterName(trimmed, nameEnd,
                       IF CharAt(trimmed, nameEnd + 1) = "["
                       THEN IndexFrom(trimmed, "]", nameEnd + 2) ELSE 0)

Pep508Pattern(trimmed) == Pep508Name(trimmed, NameRunEnd(trimmed, 1))

ParsePep508(dep) == Pep508Pattern(Trim(dep))

\* the loop of parseRequirementsTxt over lines[i..], deps built so far
RECURSIVE RequirementsFrom(_, _, _)
RequirementsFrom(lines, i, deps) ==
  IF i > Len(lines) THEN deps
  ELSE LET trimmed == Trim(lines[i]) IN
       IF trimmed = "" \/ StartsWith(trimmed, "#") \/ StartsWith(trimmed, "-")
       THEN RequirementsFrom(lines, i + 1, deps)
       ELSE LET e == ParsePep508(trimmed) IN
            RequirementsFrom(lines, i + 1, IF e.k # "" THEN SetKey(deps, e.k, e.v) ELSE deps)

ParseRequirementsTxt(content) == RequirementsFrom(content.lines, 1, <<>>)

\* ---------------------------------------------------------------------------
\* Go: parseGoMod and GoAdapter.parseDependencies
\* ---------------------------------------------------------------------------

\* A go.mod line is the sequence of the whitespace-separated tokens of its
\* trimmed text, the tokens one space apart.

\* the state of the line loop of parseGoMod before any line
GoModStart ==
  [moduleName |-> "unknown", goVersion |-> "", dependencies |-> <<>>, inRequireBlock |-> FALSE]

\* (\d+\.\d+(?:\.\d+)?) matching the whole token
IsGoVersion(token) == MatchTwoOrThreeAt(token, 1) = Len(token) /\ Len(token) > 0

\* tokens[from..] joined by single spaces
RECURSIVE JoinTokens(_, _)
JoinTokens(tokens, from) ==
  IF from > Len(tokens) THEN ""
  ELSE IF from = Len(tokens) THEN tokens[from]
  ELSE tokens[from] \o " " \o JoinTokens(tokens, from + 1)

\* one iteration of the line loop that takes every two-token line of a
\* require block as an entry, comment lines included
GoModLineKeepsComments(st, tokens) ==
  IF Len(tokens) >= 2 /\ tokens[1] = "module"
  THEN [st EXCEPT !.moduleName = JoinTokens(tokens, 2)]
  ELSE IF Len(tokens) = 2 /\ tokens[1] = "go" /\ IsGoVersion(tokens[2])
  THEN [st EXCEPT !.goVersion = tokens[2]]
  ELSE IF tokens = <<"require", "(">> THEN [st EXCEPT !.inRequireBlock = TRUE]
  ELSE IF tokens = <<")">> /\ st.inRequireBlock THEN [st EXCEPT !.inRequireBlock = FALSE]
  ELSE IF Len(tokens) >= 3 /\ tokens[1] = "require"
  THEN [st EXCEPT !.dependencies = SetKey(st.dependencies, tokens[2], tokens[3])]
  ELSE IF st.inRequireBlock /\ Len(tokens) >= 2
  THEN [st EXCEPT !.dependencies = SetKey(st.dependencies, tokens[1], tokens[2])]
  ELSE st

\* one iteration of `for (const line of lines)`
GoModLine(st, tokens) ==
  IF Len(tokens) >= 2 /\ tokens[1] = "module"
  THEN [st EXCEPT !.moduleName = JoinTokens(tokens, 2)]
  ELSE IF Len(tokens) = 2 /\ tokens[1] = "go" /\ IsGoVersion(tokens[2])
  THEN [st EXCEPT !.goVersion = tokens[2]]
  ELSE IF tokens = <<"require", "(">> THEN [st EXCEPT !.inRequireBlock = TRUE]
  ELSE IF tokens = <<")">> /\ st.inRequireBlock THEN [st EXCEPT !.inRequireBlock = FALSE]
  ELSE IF Len(tokens) >= 3 /\ tokens[1] = "require"
  THEN [st EXCEPT !.dependencies = SetKey(st.dependencies, tokens[2], tokens[3])]
  ELSE IF st.inRequireBlock /\ Len(tokens) >= 2 /\ ~StartsWith(tokens[1], "//")
  THEN [st EXCEPT !.dependencies = SetKey(st.dependencies, tokens[1], tokens[2])]
  ELSE st

RECURSIVE GoModFrom(_, _, _)
GoModFrom(lines, i, st) ==
  IF i > Len(lines) THEN st ELSE GoModFrom(lines, i + 1, GoModLine(st, lines[i]))

\* parseGoMod(content)
ParseGoMod(content) == GoModFrom(content.lines, 1, GoModStart)
\* ---------------------------------------------------------------------------
\* The contents of the project roots the runs are drawn from
\* ---------------------------------------------------------------------------

\* how the manifests of a root are written: "wellFormed" (valid, with
\* dependencies), "bare" (valid, declaring none), "truncated" (a valid
\* beginning cut off or followed by text that is not of the format) and
\* "malformed" (no valid text of the format at all)
Variants == {"wellFormed", "bare", "truncated", "malformed"}

Str(s) == [type |-> "string", value |-> s]

Tbl(version) == [type |-> "table", version |-> version]

\* a JSON or TOML document: `syntax` says whether the text parses, the other
\* fields are what the text declares
Document(syntax, tables) ==
  [syntax |-> syntax, tables |-> tables, projectDependencies |-> <<>>,
   optionalDependencies |-> <<>>]

PackageJson(variant) ==
  CASE variant = "wellFormed" ->
         Document("ok",
           <<[name |-> "dependencies",
              entries |-> <<[k |-> "next", v |-> "^14.1.0"], [k |-> "react", v |-> "18.2.0"]>>],
             [name |-> "devDependencies",
              entries |-> <<[k |-> "@types/node", v |-> "^20.11.0"],
                            [k |-> "left-pad", v |-> "1.3.0"]>>]>>)
    [] variant = "bare" -> Document("ok", <<>>)
    [] variant = "truncated" ->
         Document("bad",
           <<[name |-> "dependencies", entries |-> <<[k |-> "next", v |-> "^14.1.0"]>>]>>)
    [] variant = "malformed" -> Document("bad", <<>>)

ComposerJson(variant) ==
  CASE variant = "wellFormed" ->
         Document("ok",
           <<[name |-> "require",
              entries |-> <<[k |-> "php", v |-> ">=8.1"], [k |-> "ext-json", v |-> "*"],
                            [k |-> "laravel/framework", v |-> "^10.0"],
                            [k |-> "doctrine/dbal", v |-> "^3.7"]>>],
             [name |-> "require-dev",
              entries |-> <<[k |-> "phpunit/phpunit", v |-> "^10.5"]>>]>>)
    [] variant = "bare" -> Document("ok", <<>>)
    [] variant = "truncated" ->
         Document("bad",
           <<[name |-> "require", entries |-> <<[k |-> "laravel/framework", v |-> "^10.0"]>>]>>)
    [] variant = "malformed" -> Document("bad", <<>>)

CargoToml(variant) ==
  CASE variant = "wellFormed" ->
         Document("ok",
           <<[name |-> "dependencies",
              entries |-> <<[k |-> "serde", v |-> Tbl(Some("1.0.195"))],
                            [k |-> "axum", v |-> Str("0.7.4")],
                            [k |-> "mycrate", v |-> Tbl(Null)]>>],
             [name |-> "dev-dependencies",
              entries |-> <<[k |-> "mockall", v |-> Str("^0.12")]>>]>>)
    [] variant = "bare" -> Document("ok", <<>>)
    [] variant = "truncated" ->
         Document("bad",
           <<[name |-> "dependencies", entries |-> <<[k |-> "axum", v |-> Str("0.7.4")]>>]>>)
    [] variant = "malformed" -> Document("bad", <<>>)

PyprojectToml(variant) ==
  CASE variant = "wellFormed" ->
         [Document("ok",
            <<[name |-> "tool.poetry.dependencies",
               entries |-> <<[k |-> "python", v |-> Str("^3.11")],
                             [k |-> "SQLAlchemy", v |-> Tbl(Some("^2.0.25"))]>>],
              [name |-> "tool.poetry.group.dev.dependencies",
               entries |-> <<[k |-> "mypy", v |-> Tbl(Some("1.8.0"))]>>]>>)
          EXCEPT !.projectDependencies = <<"Django[argon2]>=4.2", "psycopg2-binary">>,
                 !.optionalDependencies = <<[group |-> "dev", items |-> <<"pytest>=7.4">>],
                                            [group |-> "docs", items |-> <<"mkdocs">>]>>]
    [] variant = "bare" -> Document("ok", <<>>)
    [] variant = "truncated" ->
         [Document("bad", <<>>) EXCEPT !.projectDependencies = <<"Django[argon2]>=4.2">>]
    [] variant = "malformed" -> Document("bad", <<>>)

PipfileToml(variant) ==
  CASE variant = "wellFormed" ->
         Document("ok",
           <<[name |-> "packages",
              entries |-> <<[k |-> "Flask", v |-> Str("==3.0.0")],
                            [k |-> "requests", v |-> Str("*")]>>],
             [name |-> "dev-packages",
              entries |-> <<[k |-> "pytest", v |-> Tbl(Some(">=7.4"))]>>]>>)
    [] variant = "bare" -> Document("ok", <<>>)
    [] variant = "truncated" ->
         Document("bad",
           <<[name |-> "packages", entries |-> <<[k |-> "Flask", v |-> Str("==3.0.0")]>>]>>)
    [] variant = "malformed" -> Document("bad", <<>>)

RequirementsTxt(variant) ==
  CASE variant = "wellFormed" ->
         [syntax |-> "ok",
          lines |-> <<"# runtime", "flask==3.0.0", "-r base.txt", "", "SQLAlchemy >= 2.0">>]
    [] variant = "bare" -> [syntax |-> "ok", lines |-> <<"# nothing yet", "">>]
    [] variant = "truncated" ->
         [syntax |-> "bad", lines |-> <<"flask==3.0.0", "<<<<<<< HEAD", "django==">>]
    [] variant = "malformed" -> [syntax |-> "bad", lines |-> <<"\t{ \"name\": 1 }", "[[">>]

\* requirements-dev.txt and its two other spellings
DevRequirementsTxt(variant) ==
  IF variant = "wellFormed" \/ variant = "bare"
  THEN [syntax |-> "ok", lines |-> <<"pytest>=7.4", "# linters", "ruff">>]
  ELSE [syntax |-> "bad", lines |-> <<"pytest>=", "=======">>]

SetupPy(variant) ==
  CASE variant = "wellFormed" ->
         [syntax |-> "ok", installRequires |-> Some(<<"flask>=2.0", "requests">>)]
    [] variant = "bare" -> [syntax |-> "ok", installRequires |-> Some(<<>>)]
    [] variant = "truncated" -> [syntax |-> "bad", installRequires |-> Some(<<"flask>=2.0">>)]
    [] variant = "malformed" -> [syntax |-> "bad", installRequires |-> Null]

GoMod(variant) ==
  CASE variant = "wellFormed" ->
         [syntax |-> "ok",
          lines |-> <<<<"module", "example.com/app">>, <<>>, <<"go", "1.21">>,
                      <<"require", "(">>,
                      <<"github.com/gin-gonic/gin", "v1.9.1">>,
                      <<"gorm.io/gorm", "v1.25.5", "//", "indirect">>,
                      <<"//", "pinned">>,
                      <<")">>,
                      <<"require", "github.com/go-redis/redis/v8", "v8.11.5">>>>]
    [] variant = "bare" ->
         [syntax |-> "ok", lines |-> <<<<"module", "example.com/app">>, <<"go", "1.21">>>>]
    [] variant = "truncated" ->
         [syntax |-> "bad",
          lines |-> <<<<"module", "example.com/app">>,
                      <<"require", "(">>,
                      <<"github.com/gin-gonic/gin", "v1.9.1">>,
                      <<"gorm.io/gorm">>>>]
    [] variant = "malformed" ->
         [syntax |-> "bad", lines |-> <<<<"<<<<<<<", "HEAD">>, <<"{", "\"name\":", "1", "}">>>>]

Element(groupId, artifactId, version, scope) ==
  [groupId |-> groupId, artifactId |-> artifactId, version |-> version, scope |-> scope]

PomXml(variant) ==
  CASE variant = "wellFormed" ->
         [syntax |-> "ok",
          dependencies |-> <<Element("org.springframework.boot", "spring-boot-starter-web",
                                     Null, ""),
                             Element("junit", "junit", Some("4.13.2"), "test")>>,
          dependencyManagement |-> <<Element("org.hibernate.orm", "hibernate-core",
                                             Some("6.4.1.Final"), ""),
                                     Element("junit", "junit", Some("4.12.0"), "")>>]
    [] variant = "bare" ->
         [syntax |-> "ok", dependencies |-> <<>>, dependencyManagement |-> <<>>]
    [] variant = "truncated" ->
         [syntax |-> "bad",
          dependencies |-> <<Element("io.javalin", "javalin", Some("6.0.0"), "")>>,
          dependencyManagement |-> <<>>]
    [] variant = "malformed" ->
         [syntax |-> "bad", dependencies |-> <<>>, dependencyManagement |-> <<>>]

BuildGradle(variant, kts) ==
  CASE variant = "wellFormed" ->
         [syntax |-> "ok",
          declarations |->
            IF kts
            THEN <<[configuration |-> "implementation", notation |-> "io.javalin:javalin:6.0.0"],
                   [configuration |-> "testImplementation", notation |-> "junit:junit:4.13.2"]>>
            ELSE <<[configuration |-> "implementation",
                    notation |-> "org.springframework.boot:spring-boot-starter-web"],
                   [configuration |-> "testRuntimeOnly",
                    notation |-> "org.junit.jupiter:junit-jupiter:5.10.1"],
                   [configuration |-> "api", notation |-> "libs"]>>]
    [] variant = "bare" -> [syntax |-> "ok", declarations |-> <<>>]
    [] variant = "truncated" ->
         [syntax |-> "bad",
          declarations |-> <<[configuration |-> "implementation",
                              notation |-> "io.javalin:javalin:6.0.0"]>>]
    [] variant = "malformed" -> [syntax |-> "bad", declarations |-> <<>>]

\* readFile(join(projectPath, name)) in a root whose manifests are written as
\* `variant` says
ReadFile(name, variant) ==
  CASE name = "package.json" -> PackageJson(variant)
    [] name = "composer.json" -> ComposerJson(variant)
    [] name = "Cargo.toml" -> CargoToml(variant)
    [] name = "pyproject.toml" -> PyprojectToml(variant)
    [] name = "Pipfile" -> PipfileToml(variant)
    [] name = "requirements.txt" -> RequirementsTxt(variant)
    [] name \in {"requirements-dev.txt", "dev-requirements.txt", "requirements_dev.txt"} ->
         DevRequirementsTxt(variant)
    [] name = "setup.py" -> SetupPy(variant)
    [] name = "go.mod" -> GoMod(variant)
    [] name = "pom.xml" -> PomXml(variant)
    [] name = "build.gradle" -> BuildGradle(variant, FALSE)
    [] name = "build.gradle.kts" -> BuildGradle(variant, TRUE)
    [] OTHER -> [syntax |-> "ok"]

\* GoAdapter.parseDependencies: go.mod is read without a check that it exists
GoParseDependencies(files, variant) ==
  IF "go.mod" \notin files THEN Thrown(ENOENT(Join(ProjectPath, "go.mod")))
  ELSE Parsed(ParseGoMod(ReadFile("go.mod", variant)).dependencies, <<>>)

\* ---------------------------------------------------------------------------
\* JavaScript and PHP: the JSON manifests
\* ---------------------------------------------------------------------------

\* analyzeDependencies(projectPath) on package.json
JsParseDependencies(files, variant) ==
  LET filePath == Join(ProjectPath, "package.json") IN
  IF "package.json" \notin files THEN Thrown("Cannot read package.json at " \o filePath)
  ELSE IF ReadFile("package.json", variant).syntax # "ok" THEN Thrown("Invalid JSON in " \o filePath)
  ELSE LET pkg == ReadFile("package.json", variant) IN
       Parsed(OrElse(Table(pkg, "dependencies"), Some(<<>>))[1],
              OrElse(Table(pkg, "devDependencies"), Some(<<>>))[1])

\* the loop over Object.entries(require): php and ext-* leave the dependencies
RECURSIVE PhpRequireFrom(_, _, _)
PhpRequireFrom(require, i, dependencies) ==
  IF i > Len(require) THEN dependencies
  ELSE IF require[i].k = "php" \/ StartsWith(require[i].k, "ext-")
  THEN PhpRequireFrom(require, i + 1, dependencies)
  ELSE PhpRequireFrom(require, i + 1, SetKey(dependencies, require[i].k, require[i].v))

\* A JSON value is [type |-> "array", items |-> list], [type |-> "object",
\* fields |-> list of [k, v]], [type |-> "string", value |-> s],
\* [type |-> "boolean", value |-> b] or [type |-> "null"]; a field that may
\* be absent is Null or Some(value).

\* Array.isArray(x) for a field x
IsArray(x) == x # Null /\ x[1].type = "array"

\* x && typeof x === "object" for a field x that is no array
IsObject(x) == x # Null /\ x[1].type = "object"

\* w[name] of an object value w
Field(w, name) ==
  LET hits == {i \in 1..Len(w.fields) : w.fields[i].k = name} IN
  IF hits = {} THEN Null ELSE Some(w.fields[CHOOSE i \in hits : TRUE].v)

\* a normalisation of pkg.workspaces that knows the array shape only
JsWorkspacesArrayOnly(pkg) ==
  IF IsArray(pkg.workspaces) THEN Some(pkg.workspaces[1].items) ELSE Null

\* the `workspaces` of analyzeDependencies
JsWorkspaces(pkg) ==
  IF IsArray(pkg.workspaces) THEN Some(pkg.workspaces[1].items)
  ELSE IF IsObject(pkg.workspaces)
  THEN LET packages == Field(pkg.workspaces[1], "packages") IN
       IF IsArray(packages) THEN Some(packages[1].items) ELSE Null
  ELSE Null

\* the extensions kept in engines
PhpNotableExtensions ==
  {"ext-redis", "ext-mongodb", "ext-imagick", "ext-gd", "ext-swoole", "ext-grpc", "ext-amqp"}

\* the same loop for engines: php and the notable extensions are kept there
RECURSIVE PhpEnginesFrom(_, _, _)
PhpEnginesFrom(require, i, engines) ==
  IF i > Len(require) THEN engines
  ELSE IF require[i].k = "php" \/ require[i].k \in PhpNotableExtensions
  THEN PhpEnginesFrom(require, i + 1, SetKey(engines, require[i].k, require[i].v))
  ELSE PhpEnginesFrom(require, i + 1, engines)

\* PhpAdapter.parseDependencies on composer.json
PhpParseDependencies(files, variant) ==
  IF "composer.json" \notin files THEN Thrown(ENOENT(Join(ProjectPath, "composer.json")))
  ELSE IF ReadFile("composer.json", variant).syntax # "ok" THEN Thrown("SyntaxError: Unexpected token in JSON")
  ELSE LET json == ReadFile("composer.json", variant) IN
       Parsed(PhpRequireFrom(OrElse(Table(json, "require"), Some(<<>>))[1], 1, <<>>),
              OrElse(Table(json, "require-dev"), Some(<<>>))[1])

\* ---------------------------------------------------------------------------
\* Rust: Cargo.toml
\* ---------------------------------------------------------------------------

\* A TOML value is [type |-> "string", value |-> s] or
\* [type |-> "table", version |-> Null or Some(s)].

\* extractCargoVersion(spec)
ExtractCargoVersion(spec) ==
  IF spec.type = "string" THEN spec.value
  ELSE IF spec.type = "table" /\ spec.version # Null THEN spec.version[1]
  ELSE "*"

\* the loop of parseCargoDeps over Object.entries(table)
RECURSIVE CargoDepsFrom(_, _, _)
CargoDepsFrom(table, i, deps) ==
  IF i > Len(table) THEN deps
  ELSE LET raw == ExtractCargoVersion(table[i].v)
           match == MatchSemver2(raw)
           stripped == Trim(StripOperators(raw))
       IN CargoDepsFrom(table, i + 1,
            SetKey(deps, table[i].k,
                   IF match # "" THEN match ELSE IF stripped # "" THEN stripped ELSE "*"))

\* parseCargoDeps(table), table Null when the manifest has no such table
ParseCargoDeps(table) == IF table = Null THEN <<>> ELSE CargoDepsFrom(table[1], 1, <<>>)

\* RustAdapter.parseDependencies on Cargo.toml
RustParseDependencies(files, variant) ==
  IF "Cargo.toml" \notin files THEN Thrown(ENOENT(Join(ProjectPath, "Cargo.toml")))
  ELSE IF ReadFile("Cargo.toml", variant).syntax # "ok" THEN Thrown("TomlError: Invalid TOML document")
  ELSE LET toml == ReadFile("Cargo.toml", variant) IN
       Parsed(ParseCargoDeps(Table(toml, "dependencies")),
              ParseCargoDeps(Table(toml, "dev-dependencies")))

\* ---------------------------------------------------------------------------
\* Python: pyproject.toml, requirements.txt, Pipfile, setup.py
\* ---------------------------------------------------------------------------

\* a loop `for (const dep of list)` that stores parsePep508(dep) in target
RECURSIVE Pep508ListFrom(_, _, _)
Pep508ListFrom(list, i, target) ==
  IF i > Len(list) THEN target
  ELSE LET e == ParsePep508(list[i]) IN Pep508ListFrom(list, i + 1, SetKey(target, e.k, e.v))

DevGroups == {"dev", "test", "testing", "lint", "development"}

\* the loop over project["optional-dependencies"]: maps is the pair
\* [dependencies, devDependencies] built so far
RECURSIVE OptionalGroupsFrom(_, _, _)
OptionalGroupsFrom(groups, i, maps) ==
  IF i > Len(groups) THEN maps
  ELSE IF groups[i].group \in DevGroups
  THEN OptionalGroupsFrom(groups, i + 1,
         [maps EXCEPT !.devDependencies = Pep508ListFrom(groups[i].items, 1, @)])
  ELSE OptionalGroupsFrom(groups, i + 1,
         [maps EXCEPT !.dependencies = Pep508ListFrom(groups[i].items, 1, @)])

\* the version a Poetry table entry stands for, by the normalisation the two
\* Poetry loops share
PoetryVersion(version) ==
  LET verMatch == MatchSemver2(version) IN
  IF verMatch # "" THEN verMatch ELSE Trim(StripOperators(version))

\* the loop over tool.poetry.dependencies
RECURSIVE PoetryDepsFrom(_, _, _)
PoetryDepsFrom(table, i, dependencies) ==
  IF i > Len(table) THEN dependencies
  ELSE IF table[i].k = "python" THEN PoetryDepsFrom(table, i + 1, dependencies)
  ELSE LET spec == table[i].v
           version == IF spec.type = "string" THEN spec.value
                      ELSE IF spec.type = "table" /\ spec.version # Null THEN spec.version[1]
                      ELSE "*"
       IN PoetryDepsFrom(table, i + 1,
            SetKey(dependencies, ToLowerCase(table[i].k), PoetryVersion(version)))

\* the loop over a Poetry dev table: a value that is no string counts as "*"
RECURSIVE PoetryDevFrom(_, _, _)
PoetryDevFrom(table, i, devDependencies) ==
  IF i > Len(table) THEN devDependencies
  ELSE LET version == IF table[i].v.type = "string" THEN table[i].v.value ELSE "*" IN
       PoetryDevFrom(table, i + 1,
         SetKey(devDependencies, ToLowerCase(table[i].k), PoetryVersion(version)))

\* PythonAdapter.parsePyproject
ParsePyproject(toml) ==
  LET Poetry(grouped) ==
        Parsed(
          PoetryDepsFrom(OrElse(Table(toml, "tool.poetry.dependencies"), Some(<<>>))[1], 1,
                         grouped.dependencies),
          PoetryDevFrom(
            OrElse(Table(toml, "tool.poetry.group.dev.dependencies"), Some(<<>>))[1], 1,
            PoetryDevFrom(
              OrElse(Table(toml, "tool.poetry.dev-dependencies"), Some(<<>>))[1], 1,
              grouped.devDependencies)))
  IN IF toml.syntax # "ok" THEN Thrown("TomlError: Invalid TOML document")
     ELSE Poetry(OptionalGroupsFrom(toml.optionalDependencies, 1,
                   [dependencies |-> Pep508ListFrom(toml.projectDependencies, 1, <<>>),
                    devDependencies |-> <<>>]))

\* parsePipfileDeps(pkgs)
RECURSIVE PipfileDepsFrom(_, _, _)
PipfileDepsFrom(pkgs, i, deps) ==
  IF i > Len(pkgs) THEN deps
  ELSE LET version == IF pkgs[i].v.type = "string" THEN pkgs[i].v.value ELSE "*"
           verMatch == MatchSemver2(version)
       IN PipfileDepsFrom(pkgs, i + 1,
            SetKey(deps, ToLowerCase(pkgs[i].k), IF verMatch # "" THEN verMatch ELSE version))

\* PythonAdapter.parsePipfile
ParsePipfile(toml) ==
  IF toml.syntax # "ok" THEN Thrown("TomlError: Invalid TOML document")
  ELSE Parsed(PipfileDepsFrom(OrElse(Table(toml, "packages"), Some(<<>>))[1], 1, <<>>),
              PipfileDepsFrom(OrElse(Table(toml, "dev-packages"), Some(<<>>))[1], 1, <<>>))

\* PythonAdapter.parseSetupPy: installRequires is what
\* /install_requires\s*=\s*\[([\s\S]*?)\]/ and /['"]([^'"]+)['"]/g find in the
\* text, Null when the first expression finds nothing
ParseSetupPy(content) ==
  Parsed(IF content.installRequires = Null THEN <<>>
         ELSE Pep508ListFrom(content.installRequires[1], 1, <<>>),
         <<>>)

\* the lockfiles detectPackageManager looks for
PythonLockfiles == {"poetry.lock", "uv.lock", "Pipfile.lock", "pdm.lock"}

\* a detectPackageManager that looks for uv.lock before poetry.lock
DetectPackageManagerUvFirst(files) ==
  IF "uv.lock" \in files THEN "uv"
  ELSE IF "poetry.lock" \in files THEN "poetry"
  ELSE IF "Pipfile.lock" \in files THEN "pipenv"
  ELSE IF "pdm.lock" \in files THEN "pdm"
  ELSE "pip"

\* detectPackageManager(projectPath) in a root with the entries `files`
DetectPackageManager(files) ==
  IF "poetry.lock" \in files THEN "poetry"
  ELSE IF "uv.lock" \in files THEN "uv"
  ELSE IF "Pipfile.lock" \in files THEN "pipenv"
  ELSE IF "pdm.lock" \in files THEN "pdm"
  ELSE "pip"

DevRequirementsFiles == <<"requirements-dev.txt", "dev-requirements.txt", "requirements_dev.txt">>

\* parseDependencies of a Python adapter that does not try setup.py
PyParseDependenciesNoSetupPy(files, variant) ==
  IF "pyproject.toml" \in files THEN ParsePyproject(ReadFile("pyproject.toml", variant))
  ELSE IF "requirements.txt" \in files
  THEN Parsed(ParseRequirementsTxt(ReadFile("requirements.txt", variant)), <<>>)
  ELSE IF "Pipfile" \in files THEN ParsePipfile(ReadFile("Pipfile", variant))
  ELSE Thrown("No Python manifest found in " \o ProjectPath
              \o " (tried pyproject.toml, requirements.txt, Pipfile)")

\* PythonAdapter.parseDependencies: the first manifest that exists, in the
\* parser's own order
PyParseDependencies(files, variant) ==
  IF "pyproject.toml" \in files THEN ParsePyproject(ReadFile("pyproject.toml", variant))
  ELSE IF "requirements.txt" \in files
  THEN LET devFiles == SelectSeq(DevRequirementsFiles, LAMBDA f : f \in files) IN
       Parsed(ParseRequirementsTxt(ReadFile("requirements.txt", variant)),
              IF Len(devFiles) = 0 THEN <<>> ELSE ParseRequirementsTxt(ReadFile(devFiles[1], variant)))
  ELSE IF "Pipfile" \in files THEN ParsePipfile(ReadFile("Pipfile", variant))
  ELSE IF "setup.py" \in files THEN ParseSetupPy(ReadFile("setup.py", variant))
  ELSE Thrown("No Python manifest found in " \o ProjectPath
              \o " (tried pyproject.toml, requirements.txt, Pipfile, setup.py)")

\* ---------------------------------------------------------------------------
\* Java: pom.xml and the Gradle build files
\* ---------------------------------------------------------------------------

\* one loop of parsePomXml over <dependency> elements: maps is the pair
\* [dependencies, devDependencies]; managed elements do not replace a key
RECURSIVE PomDepsFrom(_, _, _, _)
PomDepsFrom(elements, i, maps, managed) ==
  IF i > Len(elements) THEN maps
  ELSE LET dep == elements[i]
           key == dep.groupId \o ":" \o dep.artifactId
           version == OrElse(dep.version, Some("*"))[1]
       IN IF dep.groupId = "" \/ dep.artifactId = "" THEN PomDepsFrom(elements, i + 1, maps, managed)
          ELSE IF managed /\ (In(key, maps.dependencies) \/ In(key, maps.devDependencies))
          THEN PomDepsFrom(elements, i + 1, maps, managed)
          ELSE IF dep.scope = "test"
          THEN PomDepsFrom(elements, i + 1,
                 [maps EXCEPT !.devDependencies = SetKey(@, key, version)], managed)
          ELSE PomDepsFrom(elements, i + 1,
                 [maps EXCEPT !.dependencies = SetKey(@, key, version)], managed)

\* parsePomXml(xmlContent) on the elements the XML parser hands over
ParsePomXml(xml) ==
  LET direct == PomDepsFrom(xml.dependencies, 1,
                            [dependencies |-> <<>>, devDependencies |-> <<>>], FALSE)
      all == PomDepsFrom(xml.dependencyManagement, 1, direct, TRUE)
  IN Parsed(all.dependencies, all.devDependencies)

\* JavaAdapter.parseMaven: the XML parser is built without validation, so for
\* a text that is no well-formed XML it either throws or hands over the
\* elements it could read; `lenient` says which
ParseMaven(xml, lenient) ==
  IF xml.syntax # "ok" /\ ~lenient THEN Thrown("Error: malformed XML")
  ELSE ParsePomXml(xml)

\* String.prototype.split(sep) for a one-character separator
RECURSIVE Split(_, _)
Split(s, sep) ==
  LET at == IndexFrom(s, sep, 1) IN
  IF at = 0 THEN <<s>>
  ELSE <<SubSeq(s, 1, at - 1)>> \o Split(SubSeq(s, at + 1, Len(s)), sep)

\* the call names of depRegex
GradleCalls ==
  {"implementation", "api", "compileOnly", "runtimeOnly", "testImplementation",
   "testCompileOnly", "testRuntimeOnly"}

\* m[0] for a declaration `<call> '<notation>'`: depRegex is not anchored, so
\* it matches from the leftmost place in the call name where one of its names
\* runs to the end of the call name; "" when there is no such place
GradleMatch(declaration) ==
  LET hits == {a \in GradleCalls : EndsWith(declaration.configuration, a)} IN
  IF hits = {} THEN ""
  ELSE (CHOOSE a \in hits : \A b \in hits : Len(a) >= Len(b))
         \o " '" \o declaration.notation \o "'"

\* a test for the word anywhere in the matched text
GradleIsTestAnywhere(m0) == Includes(m0, "test")

\* const isTest = m[0].startsWith("test")
GradleIsTest(m0) == StartsWith(m0, "test")

\* the loop `while ((m = depRegex.exec(content)) !== null)` of parseGradleFile
\* over the declarations of the script, in text order
RECURSIVE GradleDepsFrom(_, _, _)
GradleDepsFrom(declarations, i, maps) ==
  IF i > Len(declarations) THEN maps
  ELSE LET m0 == GradleMatch(declarations[i])
           parts == Split(declarations[i].notation, ":")
       IN
       IF m0 = "" \/ Len(parts) < 2 THEN GradleDepsFrom(declarations, i + 1, maps)
       ELSE LET key == parts[1] \o ":" \o parts[2]
                version == IF Len(parts) >= 3 THEN parts[3] ELSE "*"
            IN IF GradleIsTest(m0)
               THEN GradleDepsFrom(declarations, i + 1,
                      [maps EXCEPT !.devDependencies = SetKey(@, key, version)])
               ELSE GradleDepsFrom(declarations, i + 1,
                      [maps EXCEPT !.dependencies = SetKey(@, key, version)])

\* parseGradleFile(content)
ParseGradleFile(content) ==
  LET maps == GradleDepsFrom(content.declarations, 1,
                             [dependencies |-> <<>>, devDependencies |-> <<>>])
  IN Parsed(maps.dependencies, maps.devDependencies)

\* JavaAdapter.parseDependencies: pom.xml, then build.gradle.kts, then
\* build.gradle
JavaParseDependencies(files, variant, lenient) ==
  IF "pom.xml" \in files THEN ParseMaven(ReadFile("pom.xml", variant), lenient)
  ELSE IF "build.gradle.kts" \in files THEN ParseGradleFile(ReadFile("build.gradle.kts", variant))
  ELSE IF "build.gradle" \in files THEN ParseGradleFile(ReadFile("build.gradle", variant))
  ELSE Thrown("No Java/Kotlin manifest found in " \o ProjectPath
              \o " (tried pom.xml, build.gradle.kts, build.gradle)")

\* adapter.parseDependencies(projectPath) of the adapter of an ecosystem
AdapterParseDependencies(eco, files, variant, lenient) ==
  CASE eco = "javascript" -> JsParseDependencies(files, variant)
    [] eco = "python" -> PyParseDependencies(files, variant)
    [] eco = "rust" -> RustParseDependencies(files, variant)
    [] eco = "go" -> GoParseDependencies(files, variant)
    [] eco = "java" -> JavaParseDependencies(files, variant, lenient)
    [] eco = "php" -> PhpParseDependencies(files, variant)

\* the packageManager of the record adapter.parseDependencies returns; the
\* package.json files written here declare none
AdapterPackageManager(eco, files, variant) ==
  CASE eco = "javascript" -> Null
    [] eco = "python" -> Some(DetectPackageManager(files))
    [] eco = "rust" -> Some("cargo")
    [] eco = "go" -> Some("go")
    [] eco = "java" -> IF "pom.xml" \in files THEN Some("maven") ELSE Some("gradle")
    [] eco = "php" -> Some("composer")

\* the manifests PythonAdapter.parseDependencies tries, in its order
PyManifestOrder == <<"pyproject.toml", "requirements.txt", "Pipfile", "setup.py">>

\* the manifests JavaAdapter.parseDependencies tries, in its order
JavaManifestOrder == <<"pom.xml", "build.gradle.kts", "build.gradle">>

\* the manifest adapter.parseDependencies reads in a root with these files:
\* the first of the adapter's order that exists, "" when none does
AdapterManifestRead(eco, files) ==
  LET order == CASE eco = "javascript" -> <<"package.json">>
                 [] eco = "python" -> PyManifestOrder
                 [] eco = "rust" -> <<"Cargo.toml">>
                 [] eco = "go" -> <<"go.mod">>
                 [] eco = "java" -> JavaManifestOrder
                 [] eco = "php" -> <<"composer.json">>
      present == SelectSeq(order, LAMBDA f : f \in files)
  IN IF Len(present) = 0 THEN "" ELSE present[1]

\* ---------------------------------------------------------------------------
\* The module-level pattern sets (constants.ts) and the objects handed out
\* ---------------------------------------------------------------------------

COMMON_IGNORE_DIRS == {".git", "dist", "build", "coverage", ".cache"}

ECOSYSTEM_PATTERNS ==
  [javascript |->
     [ignoreDirs |-> {"node_modules", ".next", ".vercel", ".turbo", ".output", ".nuxt", ".astro",
                      ".svelte-kit", ".parcel-cache", "storybook-static", ".storybook"},
      sourceExtensions |-> {"ts", "tsx", "js", "jsx", "mts", "mjs", "cjs", "svelte", "vue",
                            "astro"}],
   python |->
     [ignoreDirs |-> {"__pycache__", ".venv", "venv", "env", ".pytest_cache", ".mypy_cache",
                      ".ruff_cache", ".tox", "htmlcov", ".coverage", "site-packages", ".eggs"},
      sourceExtensions |-> {"py", "pyi", "pyx"}],
   rust |-> [ignoreDirs |-> {"target", ".cargo"}, sourceExtensions |-> {"rs"}],
   go |-> [ignoreDirs |-> {"vendor"}, sourceExtensions |-> {"go"}],
   java |-> [ignoreDirs |-> {"target", ".gradle", ".idea", "out"},
             sourceExtensions |-> {"java", "kt", "kts", "groovy", "scala"}],
   php |-> [ignoreDirs |-> {"vendor", "storage", "node_modules", "public/build", "public/hot"},
            sourceExtensions |-> {"php"}],
   ruby |-> [ignoreDirs |-> {"vendor/bundle", "tmp", "log"},
             sourceExtensions |-> {"rb", "erb", "rake", "gemspec"}]]

\* the two analyses that run side by side
Analyses == {"A", "B"}

\* An object is named by its address: [owner |-> "module", ...] for a Set
\* built when constants.ts is loaded, [owner |-> a, ...] for one built by a
\* call that analysis a made.
ModuleAddress(eco, field) == [owner |-> "module", ecosystem |-> eco, field |-> field]

FreshAddress(a, eco, field) == [owner |-> a, ecosystem |-> eco, field |-> field]

\* the Set objects that exist once the module is loaded, by address
ModuleHeap ==
  [address \in {ModuleAddress(eco, field) :
                  eco \in DOMAIN ECOSYSTEM_PATTERNS, field \in {"ignoreDirs", "sourceExtensions"}}
     |-> ECOSYSTEM_PATTERNS[address.ecosystem][address.field]]

\* the heap with one more object
Allocate(heap, address, elements) ==
  [x \in DOMAIN heap \cup {address} |-> IF x = address THEN elements ELSE heap[x]]

\* getSourceExtensions(ecosystem) called by analysis a
GetSourceExtensions(heap, a, eco) ==
  [heap |-> heap, returned |-> ModuleAddress(eco, "sourceExtensions")]

\* getIgnoreDirs(ecosystem) called by analysis a:
\* new Set([...COMMON_IGNORE_DIRS, ...ecosystemDirs])
GetIgnoreDirs(heap, a, eco) ==
  [heap |-> Allocate(heap, FreshAddress(a, eco, "ignoreDirs"),
                     COMMON_IGNORE_DIRS \cup heap[ModuleAddress(eco, "ignoreDirs")]),
   returned |-> FreshAddress(a, eco, "ignoreDirs")]

\* adapter.getFilePatterns() of the adapter of the ecosystem, called by
\* analysis a: the two fields of the returned record that are Sets
GetFilePatterns(heap, a, eco) ==
  [heap |-> heap,
   returned |-> [sourceExtensions |-> ModuleAddress(eco, "sourceExtensions"),
                 ignoreDirs |-> ModuleAddress(eco, "ignoreDirs")]]

\* what an analysis holds before it has called anything
Idle(eco) ==
  [ecosystem |-> eco, sourceExtensions |-> Null, ignoreDirs |-> Null, filePatterns |-> Null,
   stack |-> Null]
\* ---------------------------------------------------------------------------
\* Adapter dispatch: adapter.detectFramework / adapter.detectStack
\* ---------------------------------------------------------------------------

SupportedEcosystems == {"javascript", "python", "rust", "go", "java", "php"}

\* the structure argument when the caller omits it
NoStructure ==
  [defined |-> FALSE, topLevelDirs |-> {}, srcDirs |-> {}, hasAppDir |-> FALSE,
   hasPagesDir |-> FALSE]

AdapterDetectFramework(eco, d, dd, s) ==
  CASE eco = "javascript" -> JsDetectFramework(d, dd, s)
    [] eco = "python" -> PyDetectFramework(d, dd, s)
    [] eco = "rust" -> RustDetectFramework(d, dd, s)
    [] eco = "go" -> GoDetectFramework(d, dd, s)
    [] eco = "java" -> JavaDetectFramework(d, dd, s)
    [] eco = "php" -> PhpDetectFramework(d, dd, s)

AdapterDetectStack(eco, d, dd, s) ==
  CASE eco = "javascript" -> JsDetectStack(d, dd, s)
    [] eco = "python" -> PyDetectStack(d, dd, s)
    [] eco = "rust" -> RustDetectStack(d, dd, s)
    [] eco = "go" -> GoDetectStack(d, dd, s)
    [] eco = "java" -> JavaDetectStack(d, dd, s)
    [] eco = "php" -> PhpDetectStack(d, dd, s)

\* the private version helper of each adapter: ver / verMod
AdapterVer(eco, name, d, dd) ==
  CASE eco = "javascript" -> JsVer(name, d, dd)
    [] eco = "python" -> PyVer(name, d, dd)
    [] eco = "rust" -> RustVer(name, d, dd)
    [] eco = "go" -> GoVerMod(name, d, dd)
    [] eco = "java" -> JavaVer(name, d, dd)
    [] eco = "php" -> PhpVer(name, d, dd)

\* ---------------------------------------------------------------------------
\* Bounds and input pools
\* ---------------------------------------------------------------------------

\* at most this many entries in deps and devDeps together
MaxDeps == 3

\* the dependency keys the inputs are drawn from, with the version a key
\* carries in deps (v) and in devDeps (dv)
DepPool(eco) ==
  CASE eco = "javascript" ->
         <<[k |-> "@radix-ui/react-slot", v |-> "^1.0.2", dv |-> "1.1.0"],
           [k |-> "@radix-ui/react-separator", v |-> "~1.0.3", dv |-> "*"],
           [k |-> "tailwindcss", v |-> "^3.4.1", dv |-> ">=3"],
           [k |-> "class-variance-authority", v |-> "0.7.0", dv |-> "latest"],
           [k |-> "vite", v |-> "^5.0.0", dv |-> "~4.5"],
           [k |-> "react", v |-> "18.2.0", dv |-> "^17.0.2"],
           [k |-> "next", v |-> "14.1.0", dv |-> "*"],
           [k |-> "@types/node", v |-> "^20.11.0", dv |-> "^18.0.0"],
           [k |-> "left-pad", v |-> "1.3.0", dv |-> ""]>>
    [] eco = "python" ->
         <<[k |-> "psycopg2", v |-> "2.9", dv |-> "2.8.6"],
           [k |-> "psycopg2-binary", v |-> "2.9.9", dv |-> "*"],
           [k |-> "pytest", v |-> ">=7.4", dv |-> "8.0.0"],
           [k |-> "django", v |-> "4.2", dv |-> "5.0.1"],
           [k |-> "flask", v |-> "3.0.0", dv |-> "*"],
           [k |-> "types-requests", v |-> "2.31.0", dv |-> "2.31"],
           [k |-> "mylib", v |-> "*", dv |-> "0.1"]>>
    [] eco = "rust" ->
         <<[k |-> "color-eyre", v |-> "0.6", dv |-> "0.6.2"],
           [k |-> "serde", v |-> "1.0.195", dv |-> "1"],
           [k |-> "axum", v |-> "0.7.4", dv |-> "*"],
           [k |-> "hyper", v |-> "1.1", dv |-> "0.14.28"],
           [k |-> "windows-sys", v |-> "0.52", dv |-> "*"],
           [k |-> "mycrate", v |-> "*", dv |-> "0.1.0"]>>
    [] eco = "go" ->
         <<[k |-> "github.com/go-redis/redis/v8", v |-> "v8.11.5", dv |-> "v8.0.0"],
           [k |-> "gorm.io/gorm", v |-> "v1.25.5", dv |-> "v1.24.0"],
           [k |-> "github.com/labstack/echo/v4", v |-> "v4.11.4", dv |-> "v4.0.0"],
           [k |-> "github.com/gin-gonic/gin", v |-> "v1.9.1", dv |-> "v1.8.0"],
           [k |-> "github.com/gin-gonic/ginx", v |-> "v0.3.0", dv |-> "v0.2.1"],
           [k |-> "golang.org/x/sys", v |-> "v0.16.0", dv |-> "v0.15.0"],
           [k |-> "example.com/lib", v |-> "v0.0.0-20240101", dv |-> "v1"]>>
    [] eco = "java" ->
         <<[k |-> "org.hibernate.orm:hibernate-core", v |-> "6.4.1.Final", dv |-> "*"],
           [k |-> "junit:junit", v |-> "4.13.2", dv |-> "${junit.version}"],
           [k |-> "org.springframework.boot:spring-boot-starter-web", v |-> "3.2.1", dv |-> "*"],
           [k |-> "io.javalin:javalin", v |-> "6.0.0", dv |-> "5.6.3"],
           [k |-> "org.jetbrains.kotlin:kotlin-stdlib", v |-> "1.9.22", dv |-> "*"],
           [k |-> "org.jetbrains.kotlin:kotlin-stdlib-jdk8", v |-> "1.9.22", dv |-> "*"],
           [k |-> "com.example:lib", v |-> "1.0", dv |-> "*"]>>
    [] eco = "php" ->
         <<[k |-> "doctrine/dbal", v |-> "^3.7", dv |-> "*"],
           [k |-> "phpunit/phpunit", v |-> "^10.5", dv |-> "~9.6.0"],
           [k |-> "laravel/framework", v |-> "^10.0", dv |-> "*"],
           [k |-> "slim/psr7", v |-> "^1.6", dv |-> "1.6.1"],
           [k |-> "symfony/polyfill-php80", v |-> "^1.28", dv |-> "*"],
           [k |-> "acme/lib", v |-> "dev-main", dv |-> "^"]>>

\* at most this many entries in a project root
MaxFiles == 3

\* the entries a project root is drawn from, in directory order
FilePool ==
  <<"Cargo.toml", "Gemfile", "Pipfile", "README.md", "app.gemspec", "build.gradle",
    "build.gradle.kts", "composer.json", "go.mod", "package.json", "pom.xml",
    "pyproject.toml", "requirements-dev.txt", "requirements.txt", "setup.py">>

\* the entries a root can hold, the Python lockfiles among them, in directory
\* order
DirectoryOrder ==
  <<"Cargo.toml", "Gemfile", "Pipfile", "Pipfile.lock", "README.md", "app.gemspec",
    "build.gradle", "build.gradle.kts", "composer.json", "go.mod", "package.json", "pdm.lock",
    "poetry.lock", "pom.xml", "pyproject.toml", "requirements-dev.txt", "requirements.txt",
    "setup.py", "uv.lock">>

\* the structure facts the inputs are drawn from
StructurePool ==
  {[defined |-> TRUE, topLevelDirs |-> {"components", "app"}, srcDirs |-> {},
    hasAppDir |-> TRUE, hasPagesDir |-> TRUE],
   [defined |-> TRUE, topLevelDirs |-> {"src"}, srcDirs |-> {"components", "pages"},
    hasAppDir |-> FALSE, hasPagesDir |-> TRUE],
   [defined |-> TRUE, topLevelDirs |-> {"lib"}, srcDirs |-> {},
    hasAppDir |-> FALSE, hasPagesDir |-> FALSE]}

Reverse(s) == [i \in 1..Len(s) |-> s[Len(s) + 1 - i]]

\* the map holding the pool keys at the indices in idx, inserted in pool order
\* or in reverse pool order, with their deps (dev = FALSE) or devDeps versions
PoolDeps(eco, idx, reversed, dev) ==
  LET pool == DepPool(eco)
      picked == SelectSeq([i \in 1..Len(pool) |-> i], LAMBDA i : i \in idx)
      entries == [n \in 1..Len(picked) |->
                    [k |-> pool[picked[n]].k,
                     v |-> IF dev THEN pool[picked[n]].dv ELSE pool[picked[n]].v]]
  IN IF reversed THEN Reverse(entries) ELSE entries

\* ---------------------------------------------------------------------------
\* State
\* ---------------------------------------------------------------------------

VARIABLES
  pc,              \* the position of the run
  files,           \* the entries of the project root
  variant,         \* how the manifests of the root are written
  detection,       \* the EcosystemDetection returned, Null before
  ecosystem,       \* the `ecosystem` field of the adapter in use, "" before
  thrown,          \* the message of the error a call threw, Null when none did
  text,            \* the error text the tool returns, Null when it returns none
  deps,            \* pkg.dependencies
  devDeps,         \* pkg.devDependencies
  structure,       \* the structure facts handed to detectFramework
  passStructure,   \* whether the caller hands them to detectStack as well
  framework,       \* the result of detectFramework: Null or Some(FrameworkInfo)
  stack,           \* the result of detectStack, Null before the call
  manifest,        \* the manifest content a parser is applied to on its own, Null otherwise
  engines,         \* pkg.engines of a parser applied on its own
  peerDeps,        \* pkg.peerDependencies of a parser applied on its own
  packageManager,  \* pkg.packageManager: Null or Some(name)
  workspaces,      \* pkg.workspaces of a parser applied on its own: Null or Some(list)
  normalized,      \* what the version helper returns for the raw constraint, Null for null
  renormalized,    \* what it returns for its own output
  analyses,        \* what each of two analyses running side by side holds
  heap             \* the Set objects that exist, by address

vars ==
  <<pc, files, variant, detection, ecosystem, thrown, text, deps, devDeps, structure,
    passStructure, framework, stack, manifest, engines, peerDeps, packageManager,
    workspaces, normalized, renormalized, analyses, heap>>

\* the variables of a parser applied on its own and of the version helper
parseVars == <<manifest, engines, peerDeps, packageManager, workspaces>>

versionVars == <<normalized, renormalized>>

analysisVars == <<analyses, heap>>

\* ---------------------------------------------------------------------------
\* The validate-claude-md run: detect the ecosystem, resolve the adapter, parse
\* the manifest, then detect the framework and classify the stack
\* ---------------------------------------------------------------------------

Init ==
  /\ pc = "start"
  /\ files \in {fs \in SUBSET Range(FilePool) : Cardinality(fs) <= MaxFiles}
  /\ variant \in Variants
  /\ detection = Null
  /\ ecosystem = ""
  /\ thrown = Null
  /\ text = Null
  /\ deps = <<>>
  /\ devDeps = <<>>
  /\ structure \in StructurePool
  /\ passStructure = TRUE
  /\ framework = Null
  /\ stack = Null
  /\ manifest = Null
  /\ engines = <<>>
  /\ peerDeps = <<>>
  /\ packageManager = Null
  /\ workspaces = Null
  /\ normalized = Null
  /\ renormalized = Null
  /\ analyses = [a \in Analyses |-> Idle("")]
  /\ heap = ModuleHeap

\* ecosystemDetection = await detectEcosystem(projectPath), a throw returned
\* as the tool's error text
DetectEcosystemStep ==
  /\ pc = "start"
  /\ LET result == DetectEcosystem(Readdir(DirectoryOrder, files)) IN
       IF result.ok
       THEN /\ detection' = Some(result.value)
            /\ pc' = "detected"
            /\ UNCHANGED <<thrown, text>>
       ELSE /\ thrown' = Some(result.message)
            /\ text' = Some(result.message)
            /\ pc' = "failed"
            /\ UNCHANGED detection
  /\ UNCHANGED <<files, variant, ecosystem, deps, devDeps, structure, passStructure,
                 framework, stack, parseVars, versionVars, analysisVars>>

\* adapter = getEcosystemAdapter(ecosystemDetection.ecosystem), a throw
\* answered with the tool's own text
GetEcosystemAdapterStep ==
  /\ pc = "detected"
  /\ LET result == GetEcosystemAdapter(detection[1].ecosystem) IN
       IF result.ok
       THEN /\ ecosystem' = result.value.ecosystem
            /\ pc' = "resolved"
            /\ UNCHANGED <<thrown, text>>
       ELSE /\ thrown' = Some(result.message)
            /\ text' = Some(UnsupportedToolText(detection[1].ecosystem))
            /\ pc' = "failed"
            /\ UNCHANGED ecosystem
  /\ UNCHANGED <<files, variant, detection, deps, devDeps, structure, passStructure,
                 framework, stack, parseVars, versionVars, analysisVars>>

\* pkg = await adapter.parseDependencies(projectPath); a throw is not caught
\* by the tool and reaches its caller
ParseDependenciesStep ==
  /\ pc = "resolved"
  /\ \E lenient \in BOOLEAN :
       LET result == AdapterParseDependencies(ecosystem, files, variant, lenient) IN
         IF result.ok
         THEN /\ deps' = result.value.dependencies
              /\ devDeps' = result.value.devDependencies
              /\ packageManager' = AdapterPackageManager(ecosystem, files, variant)
              /\ pc' = "parsed"
              /\ UNCHANGED <<thrown, text>>
         ELSE /\ thrown' = Some(result.message)
              /\ text' = Some(result.message)
              /\ pc' = "failed"
              /\ UNCHANGED <<deps, devDeps, packageManager>>
  /\ UNCHANGED <<files, variant, detection, ecosystem, structure, passStructure,
                 framework, stack, manifest, engines, peerDeps, workspaces, versionVars, analysisVars>>

\* ---------------------------------------------------------------------------
\* The classifiers on the dependency maps of a parsed manifest
\* ---------------------------------------------------------------------------

\* The state after parseDependencies has returned some pair of dependency
\* maps of the ecosystem. Only the JavaScript classifier reads the structure
\* argument, so the other ecosystems are run with one structure.
InitClassify ==
  /\ pc = "parsed"
  /\ ecosystem \in SupportedEcosystems
  /\ \E idx \in SUBSET (1..Len(DepPool(ecosystem))),
        devIdx \in SUBSET (1..Len(DepPool(ecosystem))),
        reversed \in BOOLEAN :
       /\ Cardinality(idx) + Cardinality(devIdx) <= MaxDeps
       /\ deps = PoolDeps(ecosystem, idx, reversed, FALSE)
       /\ devDeps = PoolDeps(ecosystem, devIdx, reversed, TRUE)
  /\ structure \in StructurePool
  /\ passStructure \in BOOLEAN
  /\ ecosystem # "javascript" => structure.hasAppDir /\ passStructure
  /\ files = {}
  /\ variant = "wellFormed"
  /\ detection = Null
  /\ thrown = Null
  /\ text = Null
  /\ framework = Null
  /\ stack = Null
  /\ manifest = Null
  /\ engines = <<>>
  /\ peerDeps = <<>>
  /\ packageManager = Null
  /\ workspaces = Null
  /\ normalized = Null
  /\ renormalized = Null
  /\ analyses = [a \in Analyses |-> Idle("")]
  /\ heap = ModuleHeap

DetectFramework ==
  /\ pc = "parsed"
  /\ framework' = AdapterDetectFramework(ecosystem, deps, devDeps, structure)
  /\ pc' = "framework"
  /\ UNCHANGED <<files, variant, detection, ecosystem, thrown, text, deps, devDeps, structure,
                 passStructure, stack, parseVars, versionVars, analysisVars>>

\* detectStack as it would be had it built the merged map with
\* Object.assign(deps, devDeps) in place of the spread into a new object
DetectStackAssigningIntoDeps ==
  /\ pc = "framework"
  /\ stack' = Some(AdapterDetectStack(ecosystem, deps, devDeps,
                                      IF passStructure THEN structure ELSE NoStructure))
  /\ deps' = Merge(deps, devDeps)
  /\ pc' = "done"
  /\ UNCHANGED <<files, variant, detection, ecosystem, thrown, text, devDeps, structure,
                 passStructure, framework, parseVars, versionVars, analysisVars>>

DetectStack ==
  /\ pc = "framework"
  /\ stack' = Some(AdapterDetectStack(ecosystem, deps, devDeps,
                                      IF passStructure THEN structure ELSE NoStructure))
  /\ pc' = "done"
  /\ UNCHANGED <<files, variant, detection, ecosystem, thrown, text, deps, devDeps, structure,
                 passStructure, framework, parseVars, versionVars, analysisVars>>

NextClassify == DetectFramework \/ DetectStack

\* ---------------------------------------------------------------------------
\* The version helper on one raw constraint
\* ---------------------------------------------------------------------------

\* the raw constraints the helper is applied to
VersionPool ==
  {"^2.3.1", "~2.3.1", "2.3.1", "*", "", ">=1.2", "^18", "latest", "v1.9.1", "~> 4.17",
   "1.^2.3 beta", "^*", "${junit.version}", "6.4.1.Final"}

\* the key the constraint is stored under
VersionedKey == "lib"

\* the one-entry map { [VersionedKey]: v }
OneEntry(v) == <<[k |-> VersionedKey, v |-> v]>>

\* The state before the helper of an ecosystem is applied to a map that holds
\* one raw constraint, in deps or in devDeps.
InitVersion ==
  /\ pc = "raw"
  /\ ecosystem \in SupportedEcosystems
  /\ \E v \in VersionPool, dev \in BOOLEAN :
       /\ deps = IF dev THEN <<>> ELSE OneEntry(v)
       /\ devDeps = IF dev THEN OneEntry(v) ELSE <<>>
  /\ files = {}
  /\ variant = "wellFormed"
  /\ detection = Null
  /\ thrown = Null
  /\ text = Null
  /\ structure = NoStructure
  /\ passStructure = TRUE
  /\ framework = Null
  /\ stack = Null
  /\ manifest = Null
  /\ engines = <<>>
  /\ peerDeps = <<>>
  /\ packageManager = Null
  /\ workspaces = Null
  /\ normalized = Null
  /\ renormalized = Null
  /\ analyses = [a \in Analyses |-> Idle("")]
  /\ heap = ModuleHeap

\* ver(name, deps, devDeps)
NormalizeVersion ==
  /\ pc = "raw"
  /\ normalized' = AdapterVer(ecosystem, VersionedKey, deps, devDeps)
  /\ pc' = "normalized"
  /\ UNCHANGED <<files, variant, detection, ecosystem, thrown, text, deps, devDeps, structure,
                 passStructure, framework, stack, parseVars, renormalized, analysisVars>>

\* ver on a map that holds the helper's own output
NormalizeAgain ==
  /\ pc = "normalized"
  /\ normalized # Null
  /\ renormalized' = AdapterVer(ecosystem, VersionedKey, OneEntry(normalized[1]), <<>>)
  /\ pc' = "renormalized"
  /\ UNCHANGED <<files, variant, detection, ecosystem, thrown, text, deps, devDeps, structure,
                 passStructure, framework, stack, parseVars, normalized, analysisVars>>

NextVersion == NormalizeVersion \/ NormalizeAgain

SpecVersion == InitVersion /\ [][NextVersion]_vars

SpecClassify == InitClassify /\ [][NextClassify]_vars

\* ---------------------------------------------------------------------------
\* The classifiers on a manifest that declares one ORM and one test runner
\* ---------------------------------------------------------------------------

\* the trigger keys of the rules of a category in the adapter's rule table
TriggerKeys(eco, category) ==
  CASE eco = "javascript" ->
         UNION {Range(JsRULES[i].packages) : i \in {j \in 1..Len(JsRULES) : JsRULES[j].category = category}}
    [] eco = "python" ->
         UNION {Range(PyRULES[i].packages) : i \in {j \in 1..Len(PyRULES) : PyRULES[j].category = category}}
    [] eco = "rust" ->
         UNION {Range(RustRULES[i].packages) : i \in {j \in 1..Len(RustRULES) : RustRULES[j].category = category}}
    [] eco = "go" ->
         UNION {Range(GoRULES[i].modules) : i \in {j \in 1..Len(GoRULES) : GoRULES[j].category = category}}
    [] eco = "java" ->
         UNION {Range(JavaRULES[i].packages) : i \in {j \in 1..Len(JavaRULES) : JavaRULES[j].category = category}}
    [] eco = "php" ->
         UNION {Range(PhpRULES[i].packages) : i \in {j \in 1..Len(PhpRULES) : PhpRULES[j].category = category}}

\* the dependency map with the entries of `entries` whose dev flag is `dev`
Declared(entries, dev) ==
  LET kept == SelectSeq(entries, LAMBDA e : e.dev = dev)
  IN [i \in 1..Len(kept) |-> [k |-> kept[i].k, v |-> kept[i].v]]

\* The state after parseDependencies has returned a manifest that declares
\* one trigger of an orm rule and one trigger of a testing rule, each in
\* dependencies or in devDependencies, in either order.
InitScenario ==
  /\ pc = "parsed"
  /\ ecosystem \in SupportedEcosystems
  /\ \E orm \in TriggerKeys(ecosystem, "orm"), runner \in TriggerKeys(ecosystem, "testing"),
        ormDev \in BOOLEAN, runnerDev \in BOOLEAN, runnerFirst \in BOOLEAN :
       LET entries == IF runnerFirst
                      THEN <<[k |-> runner, v |-> "^1.2.3", dev |-> runnerDev],
                             [k |-> orm, v |-> "*", dev |-> ormDev]>>
                      ELSE <<[k |-> orm, v |-> "*", dev |-> ormDev],
                             [k |-> runner, v |-> "^1.2.3", dev |-> runnerDev]>>
       IN /\ deps = Declared(entries, FALSE)
          /\ devDeps = Declared(entries, TRUE)
  /\ structure \in StructurePool
  /\ passStructure \in BOOLEAN
  /\ ecosystem # "javascript" => structure.hasAppDir /\ passStructure
  /\ files = {}
  /\ variant = "wellFormed"
  /\ detection = Null
  /\ thrown = Null
  /\ text = Null
  /\ framework = Null
  /\ stack = Null
  /\ manifest = Null
  /\ engines = <<>>
  /\ peerDeps = <<>>
  /\ packageManager = Null
  /\ workspaces = Null
  /\ normalized = Null
  /\ renormalized = Null
  /\ analyses = [a \in Analyses |-> Idle("")]
  /\ heap = ModuleHeap

SpecScenario == InitScenario /\ [][NextClassify]_vars

\* ---------------------------------------------------------------------------
\* The run on a Python root with lockfiles
\* ---------------------------------------------------------------------------

\* the manifests of the Python adapter
PythonManifests ==
  {"pyproject.toml", "requirements.txt", "requirements-dev.txt", "Pipfile", "setup.py"}

\* at most this many manifests in a Python root
MaxManifests == 2

\* The state before the run on a root that holds some of the Python manifests
\* and any of the four lockfiles.
InitLockfiles ==
  /\ pc = "start"
  /\ \E manifests \in SUBSET PythonManifests, lockfiles \in SUBSET PythonLockfiles :
       /\ Cardinality(manifests) \in 1..MaxManifests
       /\ files = manifests \cup lockfiles
  /\ variant \in Variants
  /\ detection = Null
  /\ ecosystem = ""
  /\ thrown = Null
  /\ text = Null
  /\ deps = <<>>
  /\ devDeps = <<>>
  /\ structure \in {s \in StructurePool : s.hasAppDir}
  /\ passStructure = TRUE
  /\ framework = Null
  /\ stack = Null
  /\ manifest = Null
  /\ engines = <<>>
  /\ peerDeps = <<>>
  /\ packageManager = Null
  /\ workspaces = Null
  /\ normalized = Null
  /\ renormalized = Null
  /\ analyses = [a \in Analyses |-> Idle("")]
  /\ heap = ModuleHeap

Next ==
  \/ DetectEcosystemStep
  \/ GetEcosystemAdapterStep
  \/ ParseDependenciesStep
  \/ DetectFramework
  \/ DetectStack

Spec == Init /\ [][Next]_vars

SpecLockfiles == InitLockfiles /\ [][Next]_vars

\* ---------------------------------------------------------------------------
\* A manifest parser applied on its own to one manifest
\* ---------------------------------------------------------------------------

\* the requirements a go.mod is written from
GoRequirementPool ==
  {[module |-> m, version |-> v, indirect |-> c] :
     m \in {"github.com/gin-gonic/gin", "gorm.io/gorm", "golang.org/x/sys"},
     v \in {"v1.9.1", "v0.0.0-20240101"},
     c \in BOOLEAN}

\* at most this many requirements in a go.mod
MaxRequires == 2

\* the lines put between the requirements: a blank line or a comment line
GoModComments ==
  {<<>>, <<"//", "pinned", "for", "now">>, <<"//github.com/old/mod", "v1.0.0">>,
   <<"//", "github.com/old/mod", "v1.0.0">>}

\* the tokens `<module> <version>` of a requirement, `// indirect` after them
\* when it is marked so
GoRequireTokens(r) ==
  <<r.module, r.version>> \o (IF r.indirect THEN <<"//", "indirect">> ELSE <<>>)

\* The go.mod that declares the requirements one `require <module> <version>`
\* line each (form "single") or inside one `require ( ... )` block (form
\* "block"), with the comment line before and after the requirements; in the
\* block form both comment lines are inside the block.
GoModText(requirements, form, comment) ==
  LET header == << <<"module", "example.com/app">>, <<>>, <<"go", "1.21">>, <<>> >>
      entries == [i \in 1..Len(requirements) |-> GoRequireTokens(requirements[i])]
  IN [lines |->
        IF form = "block"
        THEN header \o << <<"require", "(">>, comment >> \o entries \o << comment, <<")">> >>
        ELSE header \o << comment >>
               \o [i \in 1..Len(entries) |-> <<"require">> \o entries[i]]
               \o << comment >>]

\* the calls a build.gradle declares its dependencies through: the seven of
\* the scraper, two further test configurations and the annotation processor
GradleCallPool ==
  GradleCalls \cup {"testFixturesImplementation", "testAnnotationProcessor", "annotationProcessor"}

\* the coordinates a build.gradle declares, the version Null when left out
GradleCoordinatePool ==
  {[group |-> "junit", artifact |-> "junit", version |-> Some("4.13.2")],
   [group |-> "org.testng", artifact |-> "testng", version |-> Some("7.9.0")],
   [group |-> "com.example", artifact |-> "lib", version |-> Null]}

GradleDeclarationPool ==
  {[call |-> c, coordinate |-> x] : c \in GradleCallPool, x \in GradleCoordinatePool}

\* at most this many declarations in a build.gradle
MaxDeclarations == 2

\* group:artifact[:version]
GradleNotation(x) ==
  x.group \o ":" \o x.artifact \o (IF x.version = Null THEN "" ELSE ":" \o x.version[1])

\* the build.gradle with one line `<call> '<group:artifact:version>'` for each
\* declaration
BuildGradleText(declared) ==
  [syntax |-> "ok",
   declarations |-> [i \in 1..Len(declared) |->
                       [configuration |-> declared[i].call,
                        notation |-> GradleNotation(declared[i].coordinate)]]]

\* the packages a composer.json names, in the order it names them
ComposerPackagePool ==
  <<[k |-> "php", v |-> "^8.2"], [k |-> "ext-json", v |-> "*"], [k |-> "ext-redis", v |-> "*"],
    [k |-> "laravel/framework", v |-> "^10.0"], [k |-> "phpunit/phpunit", v |-> "^10.5"]>>

\* The composer.json that names the package at index i under "require" when
\* place[i] = "require" and under "require-dev" when place[i] = "require-dev";
\* a section without packages is left out.
ComposerJsonText(place) ==
  LET section(name) ==
        LET at == SelectSeq([i \in 1..Len(ComposerPackagePool) |-> i], LAMBDA i : place[i] = name)
        IN [n \in 1..Len(at) |-> ComposerPackagePool[at[n]]]
      sections == SelectSeq(<<"require", "require-dev">>, LAMBDA name : Len(section(name)) > 0)
  IN [syntax |-> "ok",
      tables |-> [n \in 1..Len(sections) |-> [name |-> sections[n], entries |-> section(sections[n])]]]

\* the dependency tables of the TOML manifests
TomlSections ==
  {[file |-> "Cargo.toml", section |-> "dependencies"],
   [file |-> "Cargo.toml", section |-> "dev-dependencies"],
   [file |-> "Cargo.toml", section |-> "build-dependencies"],
   [file |-> "pyproject.toml", section |-> "tool.poetry.dependencies"],
   [file |-> "pyproject.toml", section |-> "tool.poetry.dev-dependencies"],
   [file |-> "pyproject.toml", section |-> "tool.poetry.group.dev.dependencies"],
   [file |-> "Pipfile", section |-> "packages"],
   [file |-> "Pipfile", section |-> "dev-packages"]}

\* the version constraints an entry of such a table carries
TomlVersionPool == {"^1.2.3", "~0.7", "==4.2.1", ">=2", "*"}

\* the key of the entry
TomlEntryName == "mylib"

\* The manifest whose one dependency table holds `mylib = "<version>"` (shape
\* "string") or `mylib = { version = "<version>", optional = true }` (shape
\* "table").
TomlText(section, shape, version) ==
  Document("ok",
    <<[name |-> section,
       entries |-> <<[k |-> TomlEntryName,
                      v |-> IF shape = "string" THEN Str(version) ELSE Tbl(Some(version))]>>]>>)

\* the three maps a TOML manifest parser returns: dependencies,
\* devDependencies, peerDependencies
TomlParse(file, toml) ==
  CASE file = "Cargo.toml" ->
         [dependencies |-> ParseCargoDeps(Table(toml, "dependencies")),
          devDependencies |-> ParseCargoDeps(Table(toml, "dev-dependencies")),
          peerDependencies |-> ParseCargoDeps(Table(toml, "build-dependencies"))]
    [] file = "pyproject.toml" ->
         [dependencies |-> ParsePyproject(toml).value.dependencies,
          devDependencies |-> ParsePyproject(toml).value.devDependencies,
          peerDependencies |-> <<>>]
    [] file = "Pipfile" ->
         [dependencies |-> ParsePipfile(toml).value.dependencies,
          devDependencies |-> ParsePipfile(toml).value.devDependencies,
          peerDependencies |-> <<>>]

\* the shapes the `workspaces` field of a package.json is written in
WorkspacesShapes ==
  {"absent", "array", "object", "objectWithoutPackages", "objectWithPackagesString",
   "string", "true", "null"}

\* the globs a workspaces list is written from
WorkspaceGlobs == {"packages/*", "apps/*"}

\* at most this many globs in a workspaces list
MaxGlobs == 2

JsonArray(items) == [type |-> "array", items |-> items]

JsonString(value) == [type |-> "string", value |-> value]

\* the `workspaces` field written from the globs in the shape
WorkspacesField(shape, globs) ==
  CASE shape = "absent" -> Null
    [] shape = "array" -> Some(JsonArray(globs))
    [] shape = "object" ->
         Some([type |-> "object",
               fields |-> <<[k |-> "packages", v |-> JsonArray(globs)],
                            [k |-> "nohoist", v |-> JsonArray(<<"**/react-native">>)]>>])
    [] shape = "objectWithoutPackages" ->
         Some([type |-> "object", fields |-> <<[k |-> "nohoist", v |-> JsonArray(globs)]>>])
    [] shape = "objectWithPackagesString" ->
         Some([type |-> "object", fields |-> <<[k |-> "packages", v |-> JsonString("packages/*")]>>])
    [] shape = "string" -> Some(JsonString("packages/*"))
    [] shape = "true" -> Some([type |-> "boolean", value |-> TRUE])
    [] shape = "null" -> Some([type |-> "null"])

\* the package.json with one dependency, one devDependency and the
\* workspaces field
PackageJsonText(shape, globs) ==
  [syntax |-> "ok",
   tables |-> <<[name |-> "dependencies", entries |-> <<[k |-> "react", v |-> "18.2.0"]>>],
                [name |-> "devDependencies", entries |-> <<[k |-> "vitest", v |-> "^1.2.0"]>>]>>,
   workspaces |-> WorkspacesField(shape, globs)]

\* the lists of at most n elements of a set
ListsOf(S, n) == UNION {[1..k -> S] : k \in 0..n}

\* The state before a parser is applied to a manifest written in one of the
\* forms its format allows.
InitManifest ==
  /\ pc = "manifest"
  /\ \/ /\ ecosystem = "go"
        /\ \E requirements \in ListsOf(GoRequirementPool, MaxRequires),
              form \in {"single", "block"}, comment \in GoModComments :
             manifest = Some([file |-> "go.mod", declared |-> requirements, form |-> form,
                              comment |-> comment,
                              content |-> GoModText(requirements, form, comment)])
     \/ /\ ecosystem = "java"
        /\ \E declared \in ListsOf(GradleDeclarationPool, MaxDeclarations) :
             manifest = Some([file |-> "build.gradle", declared |-> declared,
                              content |-> BuildGradleText(declared)])
     \/ /\ ecosystem = "php"
        /\ \E place \in [1..Len(ComposerPackagePool) -> {"require", "require-dev", "absent"}] :
             manifest = Some([file |-> "composer.json", declared |-> place,
                              content |-> ComposerJsonText(place)])
     \/ /\ \E t \in TomlSections, shape \in {"string", "table"}, version \in TomlVersionPool :
             manifest = Some([file |-> t.file,
                              declared |-> [section |-> t.section, shape |-> shape,
                                            version |-> version],
                              content |-> TomlText(t.section, shape, version)])
        /\ ecosystem = IF manifest[1].file = "Cargo.toml" THEN "rust" ELSE "python"
     \/ /\ ecosystem = "javascript"
        /\ \E shape \in WorkspacesShapes, globs \in ListsOf(WorkspaceGlobs, MaxGlobs) :
             manifest = Some([file |-> "package.json",
                              declared |-> [shape |-> shape, globs |-> globs],
                              content |-> PackageJsonText(shape, globs)])
  /\ deps = <<>>
  /\ devDeps = <<>>
  /\ engines = <<>>
  /\ peerDeps = <<>>
  /\ packageManager = Null
  /\ workspaces = Null
  /\ files = {manifest[1].file}
  /\ variant = "wellFormed"
  /\ detection = Null
  /\ thrown = Null
  /\ text = Null
  /\ structure = NoStructure
  /\ passStructure = TRUE
  /\ framework = Null
  /\ stack = Null
  /\ normalized = Null
  /\ renormalized = Null
  /\ analyses = [a \in Analyses |-> Idle("")]
  /\ heap = ModuleHeap

\* GoAdapter.parseDependencies: the dependencies of parseGoMod(content), the go
\* version as engines.go, and empty devDependencies
ParseGoModStep ==
  /\ pc = "manifest"
  /\ manifest[1].file = "go.mod"
  /\ LET parsed == ParseGoMod(manifest[1].content) IN
       /\ deps' = parsed.dependencies
       /\ engines' = IF parsed.goVersion # "" THEN <<[k |-> "go", v |-> parsed.goVersion]>>
                     ELSE <<>>
  /\ devDeps' = <<>>
  /\ peerDeps' = <<>>
  /\ packageManager' = Some("go")
  /\ workspaces' = Null
  /\ pc' = "parsed"
  /\ UNCHANGED <<files, variant, detection, ecosystem, thrown, text, structure,
                 passStructure, framework, stack, manifest, versionVars, analysisVars>>

\* JavaAdapter.parseDependencies on a root with build.gradle and no pom.xml:
\* the maps of parseGradleFile(content); the scripts written here set no
\* sourceCompatibility, so engines is empty
ParseGradleStep ==
  /\ pc = "manifest"
  /\ manifest[1].file = "build.gradle"
  /\ LET result == ParseGradleFile(manifest[1].content) IN
       /\ deps' = result.value.dependencies
       /\ devDeps' = result.value.devDependencies
  /\ engines' = <<>>
  /\ peerDeps' = <<>>
  /\ packageManager' = Some("gradle")
  /\ workspaces' = Null
  /\ pc' = "parsed"
  /\ UNCHANGED <<files, variant, detection, ecosystem, thrown, text, structure,
                 passStructure, framework, stack, manifest, versionVars, analysisVars>>

\* PhpAdapter.parseDependencies on a composer.json that parses
ParseComposerStep ==
  /\ pc = "manifest"
  /\ manifest[1].file = "composer.json"
  /\ LET json == manifest[1].content
         require == OrElse(Table(json, "require"), Some(<<>>))[1]
         requireDev == OrElse(Table(json, "require-dev"), Some(<<>>))[1]
     IN /\ deps' = PhpRequireFrom(require, 1, <<>>)
        /\ devDeps' = requireDev
        /\ engines' = PhpEnginesFrom(require, 1, <<>>)
  /\ peerDeps' = <<>>
  /\ packageManager' = Some("composer")
  /\ workspaces' = Null
  /\ pc' = "parsed"
  /\ UNCHANGED <<files, variant, detection, ecosystem, thrown, text, structure,
                 passStructure, framework, stack, manifest, versionVars, analysisVars>>

\* RustAdapter.parseDependencies on a Cargo.toml that parses and has no
\* [package] table
ParseCargoStep ==
  /\ pc = "manifest"
  /\ manifest[1].file = "Cargo.toml"
  /\ LET maps == TomlParse("Cargo.toml", manifest[1].content) IN
       /\ deps' = maps.dependencies
       /\ devDeps' = maps.devDependencies
       /\ peerDeps' = maps.peerDependencies
  /\ engines' = <<>>
  /\ packageManager' = Some("cargo")
  /\ workspaces' = Null
  /\ pc' = "parsed"
  /\ UNCHANGED <<files, variant, detection, ecosystem, thrown, text, structure,
                 passStructure, framework, stack, manifest, versionVars, analysisVars>>

\* PythonAdapter.parsePyproject on a pyproject.toml that parses and has no
\* requires-python
ParsePyprojectStep ==
  /\ pc = "manifest"
  /\ manifest[1].file = "pyproject.toml"
  /\ LET maps == TomlParse("pyproject.toml", manifest[1].content) IN
       /\ deps' = maps.dependencies
       /\ devDeps' = maps.devDependencies
       /\ peerDeps' = maps.peerDependencies
  /\ engines' = <<>>
  /\ packageManager' = Some(DetectPackageManager(files))
  /\ workspaces' = Null
  /\ pc' = "parsed"
  /\ UNCHANGED <<files, variant, detection, ecosystem, thrown, text, structure,
                 passStructure, framework, stack, manifest, versionVars, analysisVars>>

\* PythonAdapter.parsePipfile on a Pipfile that parses
ParsePipfileStep ==
  /\ pc = "manifest"
  /\ manifest[1].file = "Pipfile"
  /\ LET maps == TomlParse("Pipfile", manifest[1].content) IN
       /\ deps' = maps.dependencies
       /\ devDeps' = maps.devDependencies
       /\ peerDeps' = maps.peerDependencies
  /\ engines' = <<>>
  /\ packageManager' = Some(DetectPackageManager(files))
  /\ workspaces' = Null
  /\ pc' = "parsed"
  /\ UNCHANGED <<files, variant, detection, ecosystem, thrown, text, structure,
                 passStructure, framework, stack, manifest, versionVars, analysisVars>>

\* analyzeDependencies on a package.json that parses and declares no
\* packageManager
ParsePackageJsonStep ==
  /\ pc = "manifest"
  /\ manifest[1].file = "package.json"
  /\ LET pkg == manifest[1].content IN
       /\ deps' = OrElse(Table(pkg, "dependencies"), Some(<<>>))[1]
       /\ devDeps' = OrElse(Table(pkg, "devDependencies"), Some(<<>>))[1]
       /\ peerDeps' = OrElse(Table(pkg, "peerDependencies"), Some(<<>>))[1]
       /\ engines' = OrElse(Table(pkg, "engines"), Some(<<>>))[1]
       /\ workspaces' = JsWorkspaces(pkg)
  /\ packageManager' = Null
  /\ pc' = "parsed"
  /\ UNCHANGED <<files, variant, detection, ecosystem, thrown, text, structure,
                 passStructure, framework, stack, manifest, versionVars, analysisVars>>

NextManifest ==
  \/ ParseGoModStep
  \/ ParseGradleStep
  \/ ParseComposerStep
  \/ ParseCargoStep
  \/ ParsePyprojectStep
  \/ ParsePipfileStep
  \/ ParsePackageJsonStep

SpecManifest == InitManifest /\ [][NextManifest]_vars

\* ---------------------------------------------------------------------------
\* go.mod files with further directive blocks
\* ---------------------------------------------------------------------------

\* the directive blocks a go.mod holds after its requirements
GoModBlocks ==
  {<<>>,
   << <<"replace", "(">>,
      <<"github.com/old/mod", "=>", "github.com/new/mod", "v1.0.0">>,
      <<")">> >>,
   << <<"exclude", "(">>, <<"golang.org/x/sys", "v0.1.0">>, <<")">> >>,
   << <<"retract", "(">>, <<"v1.0.0">>, <<"[v1.1.0,", "v1.2.0]">>, <<")">> >>,
   << <<"replace", "github.com/old/mod", "=>", "../mod">> >>}

\* the line that closes the require block: the parenthesis alone or with a
\* comment after it
GoModClosings == {<<")">>, <<")", "//", "direct">>}

\* The go.mod with the requirements in one `require ( ... )` block closed by
\* `closing`, and the lines of `block` after it.
GoModBlocksText(requirements, closing, block) ==
  LET header == << <<"module", "example.com/app">>, <<>>, <<"go", "1.21">>, <<>> >>
      entries == [i \in 1..Len(requirements) |-> GoRequireTokens(requirements[i])]
  IN [lines |-> header \o << <<"require", "(">> >> \o entries \o <<closing, <<>> >> \o block]

\* The state before the Go adapter parses a go.mod of one require block and
\* one further directive.
InitGoMod ==
  /\ pc = "manifest"
  /\ ecosystem = "go"
  /\ \E requirements \in ListsOf(GoRequirementPool, MaxRequires),
        closing \in GoModClosings, block \in GoModBlocks :
       manifest = Some([file |-> "go.mod", declared |-> requirements, closing |-> closing,
                        block |-> block,
                        content |-> GoModBlocksText(requirements, closing, block)])
  /\ deps = <<>>
  /\ devDeps = <<>>
  /\ engines = <<>>
  /\ peerDeps = <<>>
  /\ packageManager = Null
  /\ workspaces = Null
  /\ files = {"go.mod"}
  /\ variant = "wellFormed"
  /\ detection = Null
  /\ thrown = Null
  /\ text = Null
  /\ structure = NoStructure
  /\ passStructure = TRUE
  /\ framework = Null
  /\ stack = Null
  /\ normalized = Null
  /\ renormalized = Null
  /\ analyses = [a \in Analyses |-> Idle("")]
  /\ heap = ModuleHeap

SpecGoMod == InitGoMod /\ [][ParseGoModStep]_vars

\* ---------------------------------------------------------------------------
\* Two analyses of different project roots, their calls interleaved
\* ---------------------------------------------------------------------------

\* the dependencies of the root an analysis works on
RootDeps(a, eco) == PoolDeps(eco, IF a = "A" THEN {1, 2} ELSE {3, 4}, FALSE, FALSE)

\* The state before either analysis has called anything: each works on a root
\* of some supported ecosystem, and the heap holds the module-level Sets.
InitAnalyses ==
  /\ pc = "analyses"
  /\ analyses \in [Analyses -> {Idle(eco) : eco \in SupportedEcosystems}]
  /\ heap = ModuleHeap
  /\ files = {}
  /\ variant = "wellFormed"
  /\ detection = Null
  /\ ecosystem = ""
  /\ thrown = Null
  /\ text = Null
  /\ deps = <<>>
  /\ devDeps = <<>>
  /\ structure = NoStructure
  /\ passStructure = TRUE
  /\ framework = Null
  /\ stack = Null
  /\ manifest = Null
  /\ engines = <<>>
  /\ peerDeps = <<>>
  /\ packageManager = Null
  /\ workspaces = Null
  /\ normalized = Null
  /\ renormalized = Null

analysisFrame ==
  <<pc, files, variant, detection, ecosystem, thrown, text, deps, devDeps, structure,
    passStructure, framework, stack, parseVars, versionVars>>

\* analysis a calls getSourceExtensions(ecosystem), as analyzeStructure does
CallGetSourceExtensions(a) ==
  /\ analyses[a].sourceExtensions = Null
  /\ LET call == GetSourceExtensions(heap, a, analyses[a].ecosystem) IN
       /\ heap' = call.heap
       /\ analyses' = [analyses EXCEPT ![a].sourceExtensions = Some(call.returned)]
  /\ UNCHANGED analysisFrame

\* analysis a calls getIgnoreDirs(ecosystem), as analyzeStructure does
CallGetIgnoreDirs(a) ==
  /\ analyses[a].ignoreDirs = Null
  /\ LET call == GetIgnoreDirs(heap, a, analyses[a].ecosystem) IN
       /\ heap' = call.heap
       /\ analyses' = [analyses EXCEPT ![a].ignoreDirs = Some(call.returned)]
  /\ UNCHANGED analysisFrame

\* analysis a calls adapter.getFilePatterns()
CallGetFilePatterns(a) ==
  /\ analyses[a].filePatterns = Null
  /\ LET call == GetFilePatterns(heap, a, analyses[a].ecosystem) IN
       /\ heap' = call.heap
       /\ analyses' = [analyses EXCEPT ![a].filePatterns = Some(call.returned)]
  /\ UNCHANGED analysisFrame

\* analysis a calls adapter.detectStack on the dependencies of its root
CallDetectStack(a) ==
  /\ analyses[a].stack = Null
  /\ analyses' = [analyses EXCEPT ![a].stack =
                    Some(AdapterDetectStack(analyses[a].ecosystem,
                                            RootDeps(a, analyses[a].ecosystem), <<>>,
                                            NoStructure))]
  /\ UNCHANGED heap
  /\ UNCHANGED analysisFrame

NextAnalyses ==
  \E a \in Analyses :
    \/ CallGetSourceExtensions(a)
    \/ CallGetIgnoreDirs(a)
    \/ CallGetFilePatterns(a)
    \/ CallDetectStack(a)

SpecAnalyses == InitAnalyses /\ [][NextAnalyses]_vars

\* ---------------------------------------------------------------------------
\* The analysis as JSON text
\* ---------------------------------------------------------------------------
\* A JSON text is the sequence of its tokens, without the white space of the
\* indentation. A value is [type |-> "string", value |-> s],
\* [type |-> "array", items |-> seq], [type |-> "object", fields |-> seq of
\* [k, v]] in insertion order, [type |-> "null"] or [type |-> "undefined"].

JsonNull == [type |-> "null"]

JsonUndefined == [type |-> "undefined"]

JsonObject(fields) == [type |-> "object", fields |-> fields]

\* the token of a string; no key, name or version here holds a character
\* that is escaped
Quote(s) == "\"" \o s \o "\""

Unquote(token) == SubSeq(token, 2, Len(token) - 1)

\* the value of an entry of `recognized`, as the object literal builds it
TechValue(e) ==
  JsonObject(<<[k |-> "name", v |-> JsonString(e.name)],
               [k |-> "version", v |-> IF e.version = Null THEN JsonNull
                                       ELSE JsonString(e.version[1])],
               [k |-> "category", v |-> JsonString(e.category)]>>)

\* the value detectStack returns: { recognized, unrecognized }
StackValue(detected) ==
  JsonObject(<<[k |-> "recognized",
                v |-> JsonObject([i \in 1..Len(detected.recognized) |->
                                    [k |-> detected.recognized[i].name,
                                     v |-> TechValue(detected.recognized[i])]])],
               [k |-> "unrecognized",
                v |-> JsonArray([i \in 1..Len(detected.unrecognized) |->
                                   JsonString(detected.unrecognized[i])])]>>)

\* the tokens of the parts, with a comma between two of them
RECURSIVE Joined(_)
Joined(parts) ==
  IF Len(parts) = 0 THEN <<>>
  ELSE IF Len(parts) = 1 THEN parts[1]
  ELSE parts[1] \o <<",">> \o Joined(Tail(parts))

\* JSON.stringify that leaves out a property whose value is null, as it does
\* one whose value is undefined
RECURSIVE JsonStringifyDroppingNull(_)
JsonStringifyDroppingNull(x) ==
  CASE x.type = "string" -> <<Quote(x.value)>>
    [] x.type = "null" -> <<"null">>
    [] x.type = "array" ->
         <<"[">> \o Joined([i \in 1..Len(x.items) |-> JsonStringifyDroppingNull(x.items[i])])
                 \o <<"]">>
    [] x.type = "object" ->
         LET kept == SelectSeq(x.fields, LAMBDA f : f.v.type \notin {"undefined", "null"})
         IN <<"{">> \o Joined([i \in 1..Len(kept) |->
                                 <<Quote(kept[i].k), ":">> \o JsonStringifyDroppingNull(kept[i].v)])
                    \o <<"}">>

\* JSON.stringify(x): a property whose value is undefined is left out, an
\* undefined element of an array is written as null
RECURSIVE JsonStringify(_)
JsonStringify(x) ==
  CASE x.type = "string" -> <<Quote(x.value)>>
    [] x.type = "null" -> <<"null">>
    [] x.type = "array" ->
         <<"[">> \o Joined([i \in 1..Len(x.items) |->
                              IF x.items[i].type = "undefined" THEN <<"null">>
                              ELSE JsonStringify(x.items[i])])
                 \o <<"]">>
    [] x.type = "object" ->
         LET kept == SelectSeq(x.fields, LAMBDA f : f.v.type # "undefined")
         IN <<"{">> \o Joined([i \in 1..Len(kept) |->
                                 <<Quote(kept[i].k), ":">> \o JsonStringify(kept[i].v)])
                    \o <<"}">>

\* the value that starts at token i and the index of the token after it
RECURSIVE ParseValue(_, _)
RECURSIVE ParseFields(_, _, _)
RECURSIVE ParseItems(_, _, _)
ParseValue(tokens, i) ==
  CASE tokens[i] = "null" -> [value |-> JsonNull, next |-> i + 1]
    [] tokens[i] = "{" ->
         IF tokens[i + 1] = "}" THEN [value |-> JsonObject(<<>>), next |-> i + 2]
         ELSE ParseFields(tokens, i + 1, <<>>)
    [] tokens[i] = "[" ->
         IF tokens[i + 1] = "]" THEN [value |-> JsonArray(<<>>), next |-> i + 2]
         ELSE ParseItems(tokens, i + 1, <<>>)
    [] OTHER -> [value |-> JsonString(Unquote(tokens[i])), next |-> i + 1]

\* the members from token i on, a later member of a name replacing an earlier
ParseFields(tokens, i, fields) ==
  LET k == Unquote(tokens[i])
      member == ParseValue(tokens, i + 2)
      others == SelectSeq(fields, LAMBDA f : f.k # k)
      now == IF Len(others) = Len(fields)
             THEN Append(fields, [k |-> k, v |-> member.value])
             ELSE [j \in 1..Len(fields) |->
                     IF fields[j].k = k THEN [k |-> k, v |-> member.value] ELSE fields[j]]
  IN IF tokens[member.next] = "," THEN ParseFields(tokens, member.next + 1, now)
     ELSE [value |-> JsonObject(now), next |-> member.next + 1]

ParseItems(tokens, i, items) ==
  LET item == ParseValue(tokens, i)
      now == Append(items, item.value)
  IN IF tokens[item.next] = "," THEN ParseItems(tokens, item.next + 1, now)
     ELSE [value |-> JsonArray(now), next |-> item.next + 1]

\* JSON.parse(text)
JsonParse(tokens) == ParseValue(tokens, 1).value

\* the DetectedStack a consumer reads off a parsed analysis: the entries of
\* `recognized` in key order, a missing property read as undefined
ReadStack(x) ==
  LET recognized == Field(x, "recognized")[1].fields
      unrecognized == Field(x, "unrecognized")[1].items
      Read(w, name) == LET f == Field(w, name) IN
                       IF f = Null THEN "undefined"
                       ELSE IF f[1].type = "null" THEN Null
                       ELSE Some(f[1].value)
  IN [keys |-> [i \in 1..Len(recognized) |-> recognized[i].k],
      recognized |-> [i \in 1..Len(recognized) |->
                        [name |-> Read(recognized[i].v, "name")[1],
                         version |-> Read(recognized[i].v, "version"),
                         category |-> Read(recognized[i].v, "category")[1]]],
      unrecognized |-> [i \in 1..Len(unrecognized) |-> unrecognized[i].value]]
\* ---------------------------------------------------------------------------
\* Vocabulary of the properties
\* ---------------------------------------------------------------------------

RulesOf(eco) ==
  CASE eco = "javascript" -> JsRULES
    [] eco = "python" -> PyRULES
    [] eco = "rust" -> RustRULES
    [] eco = "go" -> GoRULES
    [] eco = "java" -> JavaRULES
    [] eco = "php" -> PhpRULES

\* the trigger list of a rule: `modules` in the Go table, `packages` elsewhere
TriggersOf(eco, rule) == IF eco = "go" THEN rule.modules ELSE rule.packages

\* how a classifier matches a dependency key against a trigger
KeyMatches(eco, k, trigger) == IF eco = "go" THEN GoKeyMatches(k, trigger) ELSE k = trigger

LoopStatesOf(eco, d, dd, s) ==
  CASE eco = "javascript" -> JsLoopStates(d, dd, s)
    [] eco = "python" -> PyLoopStates(d, dd)
    [] eco = "rust" -> RustLoopStates(d, dd)
    [] eco = "go" -> GoLoopStates(d, dd)
    [] eco = "java" -> JavaLoopStates(d, dd)
    [] eco = "php" -> PhpLoopStates(d, dd)

\* the keys of the merged map that a rule's triggers match
PresentTriggerKeys(eco, rule, all) ==
  {k \in KeySet(all) : \E t \in Range(TriggersOf(eco, rule)) : KeyMatches(eco, k, t)}

\* the structure argument detectStack receives in the current state
StackStructure == IF passStructure THEN structure ELSE NoStructure

\* the merged map { ...deps, ...devDeps } of the current state
All == Merge(deps, devDeps)

\* the states of the rule loop on the inputs of the current state
Trace == LoopStatesOf(ecosystem, deps, devDeps, StackStructure)

\* the keys claimed by rules when the loop of the current state has ended
Claimed == Trace[Len(Trace)].matched

Recognized == stack[1].recognized

Unrecognized == Range(stack[1].unrecognized)

\* the ordered framework list of an ecosystem: an entry matches when, for one
\* of its alternatives, every key of the alternative is present
FrameworkEntries(eco) ==
  CASE eco = "javascript" ->
         <<[name |-> "next", alternatives |-> {{"next"}}],
           [name |-> "nuxt", alternatives |-> {{"nuxt"}}],
           [name |-> "remix", alternatives |-> {{"@remix-run/react"}, {"@remix-run/node"}}],
           [name |-> "astro", alternatives |-> {{"astro"}}],
           [name |-> "sveltekit", alternatives |-> {{"@sveltejs/kit"}}],
           [name |-> "solid-start", alternatives |-> {{"@solidjs/start"}}],
           [name |-> "vite-react", alternatives |-> {{"vite", "react"}}],
           [name |-> "express", alternatives |-> {{"express"}}],
           [name |-> "fastify", alternatives |-> {{"fastify"}}],
           [name |-> "hono", alternatives |-> {{"hono"}}],
           [name |-> "react", alternatives |-> {{"react"}}]>>
    [] eco = "python" ->
         [i \in 1..Len(PyFrameworks) |->
            [name |-> PyFrameworks[i].name, alternatives |-> {{PyFrameworks[i].pkg}}]]
    [] eco = "rust" ->
         [i \in 1..Len(RustFrameworks) |->
            [name |-> RustFrameworks[i].name, alternatives |-> {{RustFrameworks[i].pkg}}]]
    [] eco = "go" ->
         [i \in 1..Len(GoFrameworks) |->
            [name |-> GoFrameworks[i].name, alternatives |-> {{GoFrameworks[i].mod}}]]
    [] eco = "java" ->
         [i \in 1..Len(JavaFrameworks) |->
            [name |-> JavaFrameworks[i].name,
             alternatives |-> {{p} : p \in Range(JavaFrameworks[i].packages)}]]
    [] eco = "php" ->
         <<[name |-> "laravel", alternatives |-> {{"laravel/framework"}}],
           [name |-> "symfony",
            alternatives |-> {{"symfony/framework-bundle"}, {"symfony/symfony"}}]>>
         \o [i \in 1..Len(PhpOtherFrameworks) |->
               [name |-> PhpOtherFrameworks[i].name,
                alternatives |-> {{PhpOtherFrameworks[i].pkg}}]]

\* how a framework detector matches a dependency key against a list key
FrameworkKeyMatches(eco, k, key) ==
  CASE eco = "go" -> GoKeyMatches(k, key)
    [] eco = "java" -> JavaKeyMatches(k, key)
    [] OTHER -> k = key

EntryMatches(eco, entry, d, dd) ==
  \E alt \in entry.alternatives :
    \A key \in alt : \E k \in KeySet(d) \cup KeySet(dd) : FrameworkKeyMatches(eco, k, key)

MatchingEntries(eco, d, dd) ==
  {i \in 1..Len(FrameworkEntries(eco)) : EntryMatches(eco, FrameworkEntries(eco)[i], d, dd)}

\* the index of the first matching entry of a non-empty set of indices
First(indices) == CHOOSE i \in indices : \A j \in indices : i <= j

\* ---------------------------------------------------------------------------
\* Properties of the classifiers
\* ---------------------------------------------------------------------------

\* C3: a canonical name is recorded in `recognized` at most once, and the entry
\* recorded for it is the one the earliest rule that fires for the name
\* produced: it carries that rule's name and category, and no later iteration
\* of the loop changes or repeats it.
C3_RecognizedOnceByEarliestRule ==
  pc = "done" =>
    LET tr == Trace
        rules == RulesOf(ecosystem)
    IN /\ Recognized = tr[Len(tr)].recognized
       /\ \A a, b \in 1..Len(Recognized) : Recognized[a].name = Recognized[b].name => a = b
       /\ \A i \in 1..Len(rules) :
            tr[i + 1] # tr[i] =>
              /\ ~HasEntry(tr[i].recognized, rules[i].name)
              /\ Len(tr[i + 1].recognized) = Len(tr[i].recognized) + 1
              /\ LET e == tr[i + 1].recognized[Len(tr[i + 1].recognized)] IN
                   /\ e.name = rules[i].name
                   /\ e.category = rules[i].category
                   /\ \A j \in (i + 1)..(Len(rules) + 1) :
                        tr[j].recognized[Len(tr[i + 1].recognized)] = e

\* C3 witness: a finished run in which two rules fired and one of them had two
\* of its trigger keys present.
C3_Witness ==
  /\ pc = "done"
  /\ Len(Recognized) >= 2
  /\ LET tr == Trace IN
       \E i \in 1..Len(RulesOf(ecosystem)) :
         /\ tr[i + 1] # tr[i]
         /\ Cardinality(PresentTriggerKeys(ecosystem, RulesOf(ecosystem)[i], All)) >= 2

ShadcnTriggers ==
  {"@radix-ui/react-slot", "@radix-ui/react-dialog", "@radix-ui/react-dropdown-menu",
   "@radix-ui/react-separator"}

RadixTriggers ==
  {"@radix-ui/react-slot", "@radix-ui/react-dialog", "@radix-ui/react-dropdown-menu"}

\* the corroborating condition of the wrapper rule, read off the inputs
Corroborated ==
  /\ In("tailwindcss", All)
  /\ In("class-variance-authority", All)
  /\ \/ ~passStructure
     \/ "components" \in structure.topLevelDirs \cup structure.srcDirs

\* C4: in the JavaScript classifier, a present shadcn trigger with tailwindcss,
\* class-variance-authority and (no structure facts or a components directory)
\* gives `shadcn` and not `radix`, with every present Radix trigger key
\* claimed; with the condition false and a radix trigger present it gives
\* `radix` and not `shadcn`.
C4_ShadcnShadowsRadix ==
  (pc = "done" /\ ecosystem = "javascript") =>
    /\ (ShadcnTriggers \cap KeySet(All) # {} /\ Corroborated) =>
         /\ HasEntry(Recognized, "shadcn")
         /\ ~HasEntry(Recognized, "radix")
         /\ RadixTriggers \cap KeySet(All) \subseteq stack[1].matched
    /\ (RadixTriggers \cap KeySet(All) # {} /\ ~Corroborated) =>
         /\ HasEntry(Recognized, "radix")
         /\ ~HasEntry(Recognized, "shadcn")

\* C4 witness: the wrapper fired on a Radix trigger with structure facts that
\* list a components directory.
C4_Witness ==
  /\ pc = "done"
  /\ ecosystem = "javascript"
  /\ passStructure
  /\ "@radix-ui/react-slot" \in KeySet(All)
  /\ Corroborated
  /\ HasEntry(Recognized, "shadcn")

\* C5: a rule all of whose present trigger keys were claimed by earlier rules
\* is skipped and leaves the loop state as it was; a rule that fires records
\* its entry and has every one of its present trigger keys claimed before the
\* next rule is evaluated.
C5_ClaimedTriggersSkipRule ==
  pc = "done" =>
    LET tr == Trace
        rules == RulesOf(ecosystem)
    IN /\ Recognized = tr[Len(tr)].recognized
       /\ \A i \in 1..Len(rules) :
            LET present == PresentTriggerKeys(ecosystem, rules[i], All) IN
              /\ (present # {} /\ present \subseteq tr[i].matched) => tr[i + 1] = tr[i]
              /\ tr[i + 1] # tr[i] =>
                   /\ present \subseteq tr[i + 1].matched
                   /\ HasEntry(tr[i + 1].recognized, rules[i].name)

\* C5 witness: a finished run in which one rule fired and a later rule found
\* every present trigger key of its own already claimed.
C5_Witness ==
  /\ pc = "done"
  /\ LET tr == Trace IN
       \E i \in 1..Len(RulesOf(ecosystem)) :
         LET present == PresentTriggerKeys(ecosystem, RulesOf(ecosystem)[i], All) IN
           /\ present # {}
           /\ present \subseteq tr[i].matched
           /\ ~HasEntry(Recognized, RulesOf(ecosystem)[i].name)

\* C7: detectFramework reports at most one framework: the first entry of the
\* ecosystem's ordered list that matches, and none exactly when no entry
\* matches.
C7_FirstFrameworkWins ==
  pc \in {"framework", "done"} =>
    LET hits == MatchingEntries(ecosystem, deps, devDeps) IN
      /\ framework = Null <=> hits = {}
      /\ hits # {} => framework[1].name = FrameworkEntries(ecosystem)[First(hits)].name

\* C7 witness: next and react are both present and next is reported.
C7_Witness ==
  /\ pc = "framework"
  /\ {"next", "react"} \subseteq KeySet(All)
  /\ framework # Null
  /\ framework[1].name = "next"

\* the known-noise tables of an ecosystem
NoiseExactOf(eco) ==
  CASE eco = "javascript" -> JsNOISE_EXACT
    [] eco = "python" -> PyNOISE_EXACT
    [] eco = "rust" -> RustNOISE_EXACT
    [] eco = "php" -> PhpNOISE_EXACT
    [] OTHER -> {}

NoisePrefixesOf(eco) ==
  CASE eco = "javascript" -> JsNOISE_PREFIXES
    [] eco = "python" -> PyNOISE_PREFIXES
    [] eco = "rust" -> RustNOISE_PREFIXES
    [] eco = "go" -> GoNOISE_PREFIXES
    [] eco = "java" -> JavaNOISE_PREFIXES
    [] eco = "php" -> PhpNOISE_PREFIXES

\* a key that equals a known-noise entry or starts with a known-noise prefix
KnownNoise(eco, k) ==
  \/ k \in NoiseExactOf(eco)
  \/ \E prefix \in NoisePrefixesOf(eco) : StartsWith(k, prefix)

\* a key that the classifier of the ecosystem treats as a framework package
KnownFrameworkPackage(eco, k) ==
  CASE eco = "javascript" -> k \in JsFRAMEWORK_SKIP
    [] eco = "python" -> k \in PyFRAMEWORK_PACKAGES
    [] eco = "rust" -> k \in RustFRAMEWORK_PACKAGES
    [] eco = "go" -> \E fwMod \in GoFRAMEWORK_MODULES : GoKeyMatches(k, fwMod)
    [] eco = "java" -> k \in JavaFRAMEWORK_PACKAGES
    [] eco = "php" -> k \in PhpFRAMEWORK_PACKAGES

\* the keys matched by the list entry of the framework that is reported
ReportedFrameworkKeys(eco, d, dd) ==
  LET hits == MatchingEntries(eco, d, dd) IN
  IF hits = {} THEN {}
  ELSE LET entry == FrameworkEntries(eco)[First(hits)] IN
       {k \in KeySet(d) \cup KeySet(dd) :
          \E alt \in entry.alternatives :
            /\ \A key \in alt : \E k2 \in KeySet(d) \cup KeySet(dd) :
                                  FrameworkKeyMatches(eco, k2, key)
            /\ \E key \in alt : FrameworkKeyMatches(eco, k, key)}

\* the number of buckets a key is in
Buckets(k) ==
  (IF k \in Claimed THEN 1 ELSE 0)
  + (IF k \in ReportedFrameworkKeys(ecosystem, deps, devDeps) THEN 1 ELSE 0)
  + (IF KnownNoise(ecosystem, k) THEN 1 ELSE 0)
  + (IF k \in Unrecognized THEN 1 ELSE 0)

\* C1: every raw dependency key of the merged map is in exactly one of four
\* buckets: claimed by a rule, matched as a package of the framework that is
\* reported, known noise, or listed in `unrecognized`.
C1_ExactlyOneBucket ==
  pc = "done" => \A k \in KeySet(All) : Buckets(k) = 1

\* C6: a key that equals a known-noise entry or starts with a known-noise
\* prefix is never in `unrecognized` and never claimed as the trigger of a
\* recognized technology; every key that is not claimed, not noise and not a
\* framework package is in `unrecognized`.
C6_NoiseNeverReported ==
  pc = "done" =>
    \A k \in KeySet(All) :
      /\ KnownNoise(ecosystem, k) => (k \notin Unrecognized /\ k \notin Claimed)
      /\ (k \notin Claimed /\ ~KnownNoise(ecosystem, k) /\ ~KnownFrameworkPackage(ecosystem, k))
           => k \in Unrecognized

\* ---------------------------------------------------------------------------
\* Ecosystem detection, adapter resolution and manifest parsing: properties
\* ---------------------------------------------------------------------------

\* a candidate file of the tuple exists at the root `fs`
CandidateExists(check, fs) ==
  \E j \in 1..Len(check.files) :
     IF Includes(check.files[j], "*")
     THEN \E e \in fs : GlobTest(check.files[j], e)
     ELSE check.files[j] \in fs

\* the tuples of MANIFEST_CHECKS with an existing candidate
Winners(fs) == {i \in 1..Len(MANIFEST_CHECKS) : CandidateExists(MANIFEST_CHECKS[i], fs)}

\* the detection step has run
Detected == pc # "start"

\* C2: once detection has run on a root where some tuple of MANIFEST_CHECKS
\* has an existing candidate, the detection returned carries the ecosystem and
\* the confidence of the first such tuple in table order, whatever files of
\* later tuples exist beside it.
C2_FirstTupleWins ==
  LET winners == Winners(files) IN
  (Detected /\ winners # {}) =>
     /\ detection # Null
     /\ LET first == CHOOSE i \in winners : \A j \in winners : i <= j IN
          /\ detection[1].ecosystem = MANIFEST_CHECKS[first].ecosystem
          /\ detection[1].confidence = MANIFEST_CHECKS[first].confidence

\* package.json and Cargo.toml coexist and the detection is the JavaScript one
C2_Witness ==
  /\ {"package.json", "Cargo.toml"} \subseteq files
  /\ detection # Null
  /\ detection[1].ecosystem = "javascript"
  /\ detection[1].confidence = "high"

\* C8: detection fails, with the no-ecosystem error, exactly when no
\* candidate of any tuple (a *.gemspec entry included) exists at the root, and
\* a detection that is returned lists at least one manifest file.
C8_FailsIffNoCandidate ==
  Detected =>
     /\ (detection = Null) <=> (Winners(files) = {})
     /\ (detection = Null) <=>
          (pc = "failed" /\ thrown = Some(NoEcosystemMessage(ProjectPath)))
     /\ detection # Null => Len(detection[1].manifestFiles) > 0

\* a root with entries, none of them a candidate, has been refused
C8_Witness ==
  /\ files # {}
  /\ Winners(files) = {}
  /\ pc = "failed"
  /\ thrown = Some(NoEcosystemMessage(ProjectPath))

\* C9: getEcosystemAdapter returns for each of the six supported identifiers
\* an adapter with that `ecosystem` field and throws an error naming the
\* ecosystem for ruby; a root holding only a Gemfile is detected as ruby and
\* then refused at adapter resolution, the error thrown and the text returned
\* both naming ruby; every other resolved run works with the adapter of the
\* detected ecosystem.
C9_AdapterResolution ==
  /\ \A eco \in SupportedEcosystems :
        /\ GetEcosystemAdapter(eco).ok
        /\ GetEcosystemAdapter(eco).value.ecosystem = eco
  /\ ~GetEcosystemAdapter("ruby").ok
  /\ Includes(GetEcosystemAdapter("ruby").message, "\"ruby\"")
  /\ (Detected /\ files = {"Gemfile"}) =>
        (detection # Null /\ detection[1].ecosystem = "ruby")
  /\ (detection # Null /\ pc # "detected") =>
        IF detection[1].ecosystem = "ruby"
        THEN /\ pc = "failed"
             /\ thrown = Some(GetEcosystemAdapter("ruby").message)
             /\ text # Null
             /\ Includes(text[1], "ruby")
             /\ ecosystem = ""
        ELSE ecosystem = detection[1].ecosystem

\* the Gemfile-only root: detected, then refused with ruby named
C9_Witness ==
  /\ files = {"Gemfile"}
  /\ pc = "failed"
  /\ detection # Null
  /\ detection[1].ecosystem = "ruby"
  /\ text = Some(UnsupportedToolText("ruby"))

\* the manifests an ecosystem's parser reads
ManifestNames(eco) ==
  CASE eco = "javascript" -> {"package.json"}
    [] eco = "python" -> {"pyproject.toml", "requirements.txt", "requirements-dev.txt",
                           "Pipfile", "setup.py"}
    [] eco = "rust" -> {"Cargo.toml"}
    [] eco = "go" -> {"go.mod"}
    [] eco = "java" -> {"pom.xml", "build.gradle", "build.gradle.kts"}
    [] eco = "php" -> {"composer.json"}
    [] OTHER -> {}

\* parseDependencies has returned a result
ParseReturned == pc \in {"parsed", "framework", "done"}

\* C10: parseDependencies returns a result only when some manifest of the
\* ecosystem at the root is in its expected format; with every one of them
\* unparsable it fails.
C10_MalformedManifestFails ==
  ParseReturned =>
     \E f \in files \cap ManifestNames(ecosystem) : ReadFile(f, variant).syntax = "ok"

\* ---------------------------------------------------------------------------
\* Detection followed by parsing
\* ---------------------------------------------------------------------------

\* the messages parseDependencies fails with when it finds no manifest file:
\* the adapters' own "No ... manifest found", analyzeDependencies' "Cannot
\* read", and the ENOENT of a readFile on a path that does not exist
ManifestAbsentMessage(message) ==
  \/ StartsWith(message, "ENOENT")
  \/ StartsWith(message, "Cannot read package.json at ")
  \/ StartsWith(message, "No Python manifest found")
  \/ StartsWith(message, "No Java/Kotlin manifest found")

\* C11: a run whose detection returned one of the six supported ecosystems
\* never fails at parseDependencies for want of the manifest file: whatever
\* file made the detection succeed, the parser of that ecosystem finds a file
\* to read.
C11_DetectedManifestIsFound ==
  (pc = "failed" /\ detection # Null /\ detection[1].ecosystem \in SupportedEcosystems) =>
     ~ManifestAbsentMessage(thrown[1])

\* setup.py alone, the last candidate of the secondary Python tuple and the
\* last file the Python parser tries, has been detected and parsed
C11_Witness ==
  /\ files = {"setup.py"}
  /\ detection # Null
  /\ detection[1].ecosystem = "python"
  /\ pc = "parsed"
  /\ Len(deps) > 0

\* ---------------------------------------------------------------------------
\* Version normalization
\* ---------------------------------------------------------------------------

\* the raw constraint the helper was applied to
RawVersion == IF Len(deps) > 0 THEN deps[1].v ELSE devDeps[1].v

\* the version a caller reports for the helper's result: ver(...) ?? "unknown"
Reported(v) == OrElse(v, Some("unknown"))[1]

\* C12: in every ecosystem the version helper maps the caret range "^2.3.1"
\* and the tilde range "~2.3.1" to "2.3.1", and for the wildcard "*" the
\* version reported is "unknown" (the helper answers null, which callers
\* report as "unknown"), never the wildcard itself.
C12_RangeAndWildcard ==
  pc \in {"normalized", "renormalized"} =>
     /\ RawVersion \in {"^2.3.1", "~2.3.1"} => normalized = Some("2.3.1")
     /\ RawVersion = "*" => Reported(normalized) = "unknown"

\* C13: in every ecosystem the version helper applied to its own non-null
\* output returns that output.
C13_Idempotent ==
  pc = "renormalized" => renormalized = normalized

\* ---------------------------------------------------------------------------
\* Order of the keys of the input maps
\* ---------------------------------------------------------------------------

\* the map with its first key moved to the end
Rotate(s) == IF Len(s) = 0 THEN s ELSE Tail(s) \o <<Head(s)>>

\* the same map with its keys inserted in another order
Reorderings(s) == {Reverse(s), Rotate(s)}

\* the technologies of a classifier result: canonical name and category
Technologies(result) ==
  {[name |-> result.recognized[i].name, category |-> result.recognized[i].category] :
     i \in 1..Len(result.recognized)}

RecordedCategories == {stack[1].recognized[i].category : i \in 1..Len(stack[1].recognized)}

\* C15: for a manifest that declares only one ORM dependency and one
\* test-runner dependency, detectFramework returns none, detectStack records
\* exactly two technologies, one of category orm and one of category testing,
\* and the unrecognized list is empty; neither call throws.
C15_OrmAndTestRunnerOnly ==
  pc = "done" =>
    /\ framework = Null
    /\ Len(stack[1].recognized) = 2
    /\ RecordedCategories = {"orm", "testing"}
    /\ stack[1].unrecognized = <<>>
    /\ thrown = Null

C15_Witness ==
  /\ pc = "done"
  /\ ecosystem = "javascript"
  /\ KeySet(deps) = {"drizzle-orm"}
  /\ KeySet(devDeps) = {"vitest"}
  /\ Len(stack[1].recognized) = 2

\* the dependency map that holds the declared requirements, a module declared
\* twice keeping its place and taking the later version
RECURSIVE RequiredMap(_, _)
RequiredMap(requirements, i) ==
  IF i = 0 THEN <<>>
  ELSE SetKey(RequiredMap(requirements, i - 1), requirements[i].module, requirements[i].version)

OtherForm(form) == IF form = "block" THEN "single" ELSE "block"

\* C16: parseGoMod returns the same dependencies for requirements declared
\* one `require <module> <version>` line each as for the same requirements
\* inside a `require ( ... )` block, namely the declared modules with their
\* versions; a comment line inside the block adds no entry.
C16_SingleLineAndBlockAgree ==
  (pc = "parsed" /\ manifest # Null /\ manifest[1].file = "go.mod") =>
     LET m == manifest[1] IN
       /\ deps = ParseGoMod(GoModText(m.declared, OtherForm(m.form), m.comment)).dependencies
       /\ deps = RequiredMap(m.declared, Len(m.declared))

\* a block of two requirements with a commented-out requirement inside it
C16_Witness ==
  /\ pc = "parsed"
  /\ manifest # Null
  /\ manifest[1].file = "go.mod"
  /\ manifest[1].form = "block"
  /\ manifest[1].comment = <<"//", "github.com/old/mod", "v1.0.0">>
  /\ Len(manifest[1].declared) = 2
  /\ Len(deps) = 2

\* k is the module path m or a path below it
PathAtOrBelow(k, m) ==
  \/ k = m
  \/ /\ Len(k) > Len(m) + 1
     /\ SubSeq(k, 1, Len(m)) = m
     /\ SubSeq(k, Len(m) + 1, Len(m) + 1) = "/"

\* some key of deps or devDeps is at or below one of the module paths
SomeKeyAtOrBelow(modules) ==
  \E k \in KeySet(deps) \cup KeySet(devDeps) : \E m \in modules : PathAtOrBelow(k, m)

\* C17: the Go adapter takes a key k for a module path m exactly when k = m
\* or k starts with m followed by "/": a framework is reported, and a rule's
\* technology recorded, exactly when some key is at or below one of its
\* module paths, and github.com/gin-gonic/ginx is neither gin nor claimed.
C17_GoPathBoundary ==
  (pc = "done" /\ ecosystem = "go") =>
     /\ \A i \in 1..Len(GoFrameworks) :
          (framework # Null /\ framework[1].name = GoFrameworks[i].name)
            <=> /\ SomeKeyAtOrBelow({GoFrameworks[i].mod})
                /\ \A j \in 1..(i - 1) : ~SomeKeyAtOrBelow({GoFrameworks[j].mod})
     /\ \A i \in 1..Len(GoRULES) :
          HasEntry(stack[1].recognized, GoRULES[i].name)
            <=> \E j \in 1..Len(GoRULES) :
                   /\ GoRULES[j].name = GoRULES[i].name
                   /\ SomeKeyAtOrBelow(Range(GoRULES[j].modules))
     /\ In("github.com/gin-gonic/ginx", Merge(deps, devDeps))
          => "github.com/gin-gonic/ginx" \in Range(stack[1].unrecognized)

\* ginx beside a key below the echo module path: echo is the framework, ginx
\* is left unrecognized
C17_Witness ==
  /\ pc = "done"
  /\ ecosystem = "go"
  /\ KeySet(deps) = {"github.com/gin-gonic/ginx", "github.com/labstack/echo/v4"}
  /\ framework # Null
  /\ framework[1].name = "echo"
  /\ stack[1].unrecognized = <<"github.com/gin-gonic/ginx">>

\* the group:artifact keys the script declares through one of the calls
DeclaredThrough(calls) ==
  {d.coordinate.group \o ":" \o d.coordinate.artifact :
     d \in {manifest[1].declared[i] : i \in 1..Len(manifest[1].declared)} \cap
            {x \in GradleDeclarationPool : x.call \in calls}}

\* C18: the Gradle scraper records a coordinate in devDependencies exactly
\* when it is declared through testImplementation, testCompileOnly or
\* testRuntimeOnly, and in dependencies exactly when it is declared through
\* implementation, api, compileOnly or runtimeOnly, whatever the coordinate.
C18_BucketByCallName ==
  (pc = "parsed" /\ manifest # Null /\ manifest[1].file = "build.gradle") =>
     /\ KeySet(devDeps)
          = DeclaredThrough({"testImplementation", "testCompileOnly", "testRuntimeOnly"})
     /\ KeySet(deps) = DeclaredThrough({"implementation", "api", "compileOnly", "runtimeOnly"})

\* testng declared through implementation and junit through testRuntimeOnly
C18_Witness ==
  /\ pc = "parsed"
  /\ manifest # Null
  /\ manifest[1].file = "build.gradle"
  /\ KeySet(deps) = {"org.testng:testng"}
  /\ KeySet(devDeps) = {"junit:junit"}
  /\ \E i \in 1..Len(manifest[1].declared) : manifest[1].declared[i].call = "testRuntimeOnly"

\* the packages the composer.json names under a section
NamedUnder(section) ==
  {ComposerPackagePool[i].k : i \in {j \in 1..Len(ComposerPackagePool) : manifest[1].declared[j] = section}}

\* C19: the Composer parser returns neither `php` nor an `ext-` key in
\* dependencies or devDependencies; `php` and the notable extensions it finds
\* under "require" are in engines, the other extensions are nowhere.
C19_PlatformKeysLeaveDependencyMaps ==
  (pc = "parsed" /\ manifest # Null /\ manifest[1].file = "composer.json") =>
     /\ \A k \in KeySet(deps) \cup KeySet(devDeps) : k # "php" /\ ~StartsWith(k, "ext-")
     /\ \A k \in NamedUnder("require") :
          /\ k \in {"php", "ext-redis"} => In(k, engines)
          /\ k = "ext-json" => ~In(k, engines)

\* the same for the packages named under "require" alone
RequireKeysLeaveDependencies ==
  (pc = "parsed" /\ manifest # Null /\ manifest[1].file = "composer.json") =>
     /\ \A k \in KeySet(deps) : k # "php" /\ ~StartsWith(k, "ext-")
     /\ \A k \in NamedUnder("require") :
          /\ k \in {"php", "ext-redis"} => In(k, engines)
          /\ k = "ext-json" => ~In(k, engines)

TomlFiles == {"Cargo.toml", "pyproject.toml", "Pipfile"}

OtherShape(shape) == IF shape = "string" THEN "table" ELSE "string"

\* the maps the parser returns for the same manifest with the entry written
\* in the other shape
OtherShapeMaps ==
  LET m == manifest[1] IN
  TomlParse(m.file, TomlText(m.declared.section, OtherShape(m.declared.shape), m.declared.version))

\* C20: a TOML dependency table entry written as a string and the same entry
\* written as a table `{ version = ... }` are recorded with the same version,
\* in every dependency table of Cargo.toml, of Poetry and of the Pipfile.
C20_StringAndTableShapesAgree ==
  (pc = "parsed" /\ manifest # Null /\ manifest[1].file \in TomlFiles) =>
     /\ Len(deps) + Len(devDeps) + Len(peerDeps) = 1
     /\ deps = OtherShapeMaps.dependencies
     /\ devDeps = OtherShapeMaps.devDependencies
     /\ peerDeps = OtherShapeMaps.peerDependencies

\* the same for the tables read by parseCargoDeps and for
\* tool.poetry.dependencies
ShapesAgreeInCargoAndPoetryMain ==
  (/\ pc = "parsed" /\ manifest # Null
   /\ manifest[1].file \in TomlFiles
   /\ \/ manifest[1].file = "Cargo.toml"
      \/ manifest[1].declared.section = "tool.poetry.dependencies") =>
     /\ deps = OtherShapeMaps.dependencies
     /\ devDeps = OtherShapeMaps.devDependencies
     /\ peerDeps = OtherShapeMaps.peerDependencies

\* C21: analyzeDependencies returns the globs as `workspaces` when the field
\* is a flat array of them and when it is an object whose `packages` is that
\* array, and null when the field is absent or has neither shape.
C21_WorkspacesNormalized ==
  (pc = "parsed" /\ manifest # Null /\ manifest[1].file = "package.json") =>
     LET d == manifest[1].declared IN
       /\ d.shape \in {"array", "object"} =>
            /\ workspaces = Some(d.globs)
            /\ workspaces = JsWorkspaces(PackageJsonText("array", d.globs))
            /\ workspaces = JsWorkspaces(PackageJsonText("object", d.globs))
       /\ d.shape \notin {"array", "object"} => workspaces = Null

\* the object shape with two globs
C21_Witness ==
  /\ pc = "parsed"
  /\ manifest # Null
  /\ manifest[1].file = "package.json"
  /\ manifest[1].declared.shape = "object"
  /\ workspaces = Some(<<"packages/*", "apps/*">>)

\* the package manager of the first lockfile, in the order poetry.lock,
\* uv.lock, Pipfile.lock, pdm.lock, that the root holds; pip when it holds none
ManagerByLockfile ==
  LET lockfile == <<"poetry.lock", "uv.lock", "Pipfile.lock", "pdm.lock">>
      manager == <<"poetry", "uv", "pipenv", "pdm">>
      present == {i \in 1..4 : lockfile[i] \in files}
  IN IF present = {} THEN "pip" ELSE manager[CHOOSE i \in present : \A j \in present : i <= j]

\* C22: what the Python adapter returns as packageManager is decided by the
\* lockfiles of the root alone, poetry.lock before uv.lock before Pipfile.lock
\* before pdm.lock and pip without any; the dependencies and devDependencies
\* are those of the same root without its lockfiles.
C22_LockfilesDecideManagerOnly ==
  (pc \in {"parsed", "framework", "done"} /\ ecosystem = "python") =>
     /\ packageManager = Some(ManagerByLockfile)
     /\ LET alone == PyParseDependencies(files \ PythonLockfiles, variant) IN
          /\ alone.ok
          /\ deps = alone.value.dependencies
          /\ devDeps = alone.value.devDependencies

\* a Pipfile root with Pipfile.lock and pdm.lock
C22_Witness ==
  /\ pc = "parsed"
  /\ files = {"Pipfile", "Pipfile.lock", "pdm.lock"}
  /\ packageManager = Some("pipenv")
  /\ Len(deps) > 0

\* the addresses of the Sets an analysis has been returned
Held(a) ==
  (IF analyses[a].sourceExtensions = Null THEN {} ELSE {analyses[a].sourceExtensions[1]})
  \cup (IF analyses[a].ignoreDirs = Null THEN {} ELSE {analyses[a].ignoreDirs[1]})
  \cup (IF analyses[a].filePatterns = Null THEN {}
        ELSE {analyses[a].filePatterns[1].sourceExtensions, analyses[a].filePatterns[1].ignoreDirs})

\* every result an analysis holds is the result of the same call made alone
ResultsAsAlone ==
  pc = "analyses" =>
    \A a \in Analyses :
      LET eco == analyses[a].ecosystem IN
        /\ analyses[a].stack # Null =>
             analyses[a].stack[1] = AdapterDetectStack(eco, RootDeps(a, eco), <<>>, NoStructure)
        /\ analyses[a].sourceExtensions # Null =>
             heap[analyses[a].sourceExtensions[1]] = ECOSYSTEM_PATTERNS[eco].sourceExtensions
        /\ analyses[a].ignoreDirs # Null =>
             heap[analyses[a].ignoreDirs[1]]
               = COMMON_IGNORE_DIRS \cup ECOSYSTEM_PATTERNS[eco].ignoreDirs
        /\ analyses[a].filePatterns # Null =>
             /\ heap[analyses[a].filePatterns[1].sourceExtensions]
                  = ECOSYSTEM_PATTERNS[eco].sourceExtensions
             /\ heap[analyses[a].filePatterns[1].ignoreDirs] = ECOSYSTEM_PATTERNS[eco].ignoreDirs

\* C23: under every interleaving of the calls of two analyses each holds the
\* results it gets alone, and every Set an analysis was returned is an object
\* of its own: not a module-level Set and not one the other analysis holds.
C23_AnalysesShareNothing ==
  /\ ResultsAsAlone
  /\ pc = "analyses" =>
       \A a \in Analyses : \A address \in Held(a) :
          /\ address.owner = a
          /\ \A b \in Analyses \ {a} : address \notin Held(b)

C25_NextVariantFromStructure ==
  (pc \in {"framework", "done"} /\ ecosystem = "javascript" /\ framework # Null) =>
     /\ framework[1].name = "next" =>
          /\ framework[1].variant # Null
          /\ structure.hasAppDir => framework[1].variant[1] = "app-router"
          /\ (~structure.hasAppDir /\ structure.hasPagesDir) =>
                framework[1].variant[1] = "pages-router"
          /\ (~structure.hasAppDir /\ ~structure.hasPagesDir) =>
                framework[1].variant[1] = "unknown"
          /\ framework[1].variant =
                JsDetectFramework(<<[k |-> "next", v |-> "1.0.0"]>>, <<>>, structure)[1].variant
     /\ framework[1].name # "next" => framework[1].variant = Null

\* next in a project with both an app and a pages directory
C25_Witness ==
  /\ pc = "framework"
  /\ ecosystem = "javascript"
  /\ structure.hasAppDir
  /\ structure.hasPagesDir
  /\ framework # Null
  /\ framework[1].name = "next"
  /\ framework[1].variant = Some("app-router")

\* the DetectedStack read back from the JSON text of the one detectStack returned
RoundTrip == ReadStack(JsonParse(JsonStringify(StackValue(stack[1]))))

NoDuplicates(s) == \A i, j \in 1..Len(s) : s[i] = s[j] => i = j

\* the keys of the merged map that are in `unrecognized`, in the key order of
\* the merged map
UnrecognizedInKeyOrder ==
  LET keys == [i \in 1..Len(All) |-> All[i].k]
  IN SelectSeq(keys, LAMBDA k : k \in Range(stack[1].unrecognized))

\* C26: the JSON text of a DetectedStack parses back to an equal structure:
\* every recognized entry under its name with its name, category and version,
\* a version of none read back as none, and `unrecognized` with the same
\* elements in the same order, which is the key order of the merged map,
\* without duplicates.
C26_JsonRoundTrip ==
  pc = "done" =>
    /\ JsonParse(JsonStringify(StackValue(stack[1]))) = StackValue(stack[1])
    /\ RoundTrip.recognized = stack[1].recognized
    /\ RoundTrip.keys = [i \in 1..Len(stack[1].recognized) |-> stack[1].recognized[i].name]
    /\ RoundTrip.unrecognized = stack[1].unrecognized
    /\ stack[1].unrecognized = UnrecognizedInKeyOrder
    /\ NoDuplicates(stack[1].unrecognized)

\* a stack with an entry without version and two unrecognized keys
C26_Witness ==
  /\ pc = "done"
  /\ \E i \in 1..Len(stack[1].recognized) : stack[1].recognized[i].version = Null
  /\ Len(stack[1].unrecognized) >= 2
  /\ "null" \in Range(JsonStringify(StackValue(stack[1])))

\* the triggers of the rules named `name` that match a key of the merged map
PresentTriggers(name) ==
  {t \in UNION {Range(TriggersOf(ecosystem, r)) :
                  r \in {q \in Range(RulesOf(ecosystem)) : q.name = name}} :
     \E k \in KeySet(All) : KeyMatches(ecosystem, k, t)}

\* C27: the version of every recognized entry is the normalized version of a
\* trigger of its rule that is present in the dependency maps; an entry whose
\* rule has its first trigger absent and another one present with a concrete
\* version carries that version, not none.
C27_VersionOfPresentTrigger ==
  pc = "done" =>
    \A i \in 1..Len(stack[1].recognized) :
       \E t \in PresentTriggers(stack[1].recognized[i].name) :
          stack[1].recognized[i].version = AdapterVer(ecosystem, t, deps, devDeps)

\* the keys detectStack keeps out of `unrecognized` for being framework
\* packages: claimed by no rule, no known noise, in the framework-package list
SkippedAsFramework ==
  {k \in KeySet(All) :
     /\ k \notin Claimed
     /\ ~KnownNoise(ecosystem, k)
     /\ KnownFrameworkPackage(ecosystem, k)}

\* C28: whenever detectStack keeps an unclaimed key out of `unrecognized`
\* because it is a framework package, detectFramework on the same maps
\* returns a framework.
C28_SkippedKeyHasFramework ==
  (pc = "done" /\ SkippedAsFramework # {}) => framework # Null

\* C29: parseGoMod takes a dependency only from a single-line require or from
\* a line between `require (` and the next `)`: the dependencies of a go.mod
\* with one require block and a replace, exclude or retract directive after
\* it are the requirements of the block, and the in-require-block flag is
\* false at the end of the file.
C29_OnlyRequireLinesRecorded ==
  (pc = "parsed" /\ manifest # Null /\ manifest[1].file = "go.mod") =>
     /\ deps = RequiredMap(manifest[1].declared, Len(manifest[1].declared))
     /\ ~ParseGoMod(manifest[1].content).inRequireBlock

\* the same for the files whose require block closes with a `)` alone
OnlyRequireLinesAfterBareClosing ==
  (pc = "parsed" /\ manifest # Null /\ manifest[1].file = "go.mod"
     /\ manifest[1].closing = <<")">>) =>
     /\ deps = RequiredMap(manifest[1].declared, Len(manifest[1].declared))
     /\ ~ParseGoMod(manifest[1].content).inRequireBlock

\* C30: the manifest file detectEcosystem reports is the file the resolved
\* adapter's parseDependencies reads, also in a root that holds several
\* manifests of the ecosystem.
C30_ReportedManifestIsParsed ==
  (pc \in {"parsed", "framework", "done"} /\ detection # Null) =>
     /\ Len(detection[1].manifestFiles) = 1
     /\ detection[1].manifestFiles[1].path = AdapterManifestRead(ecosystem, files)

====
